---------------------------- MODULE Spec2Model ----------------------------
(***************************************************************************)
(* A model of bash2gitlab: the safe reference parser, the script inliner,  *)
(* the artifact packager, the compiled-output writer with its hash         *)
(* records, map-deploy, the containment boundary kept by the inliner and   *)
(* the dependency graph builder, drift detection over hash records, the   *)
(* worker pool of the compile command with the record paths its workers    *)
(* write, the input change detector, the handling of a script field that  *)
(* is a single string, the visited-set walk over source lines, the order  *)
(* of the top-level keys in the dumped document, and the task registry of *)
(* the web API.                                                            *)
(*                                                                         *)
(* Text is modelled as a sequence of one-character strings, so that        *)
(* tokenizing, suffix tests and path normalisation are computed on the     *)
(* characters, as the Python code computes them.                           *)
(***************************************************************************)
EXTENDS Integers, Sequences, FiniteSets, TLC

VARIABLES
    \* the safe reference parser
    cmd_line,       \* the command line handed to extract_script_path
    n_pieces,       \* how many pieces the line was assembled from
    parse_result,   \* what extract_script_path returned
    \* the script inliner (bash2gitlab/compile_all.py)
    script_list,    \* the job's script field: a list of command lines
    script_files,   \* the scripts directory: relative path -> file content
    scripts_is_dir, \* the scripts directory exists
    yaml_vars,      \* the document's own top-level variables
    global_vars,    \* the parsed global_variables.sh
    job_vars_file,  \* the parsed <job>_variables.sh found in the input tree
    output_file,    \* the root output file on disk
    compiled,       \* the outcome of process_uncompiled_directory
    exit_status,    \* the exit status of the compile command
    \* the artifact packager (bash2gitlab/commands/compile_artifacts.py)
    art_line,       \* the script line offered to maybe_inline_artifact
    art_sizes,      \* existing absolute paths -> size of their zip archive
    max_size,       \* get_max_artifact_size()
    art_result,     \* what maybe_inline_artifact returned
    \* map-deploy (bash2gitlab/commands/map_deploy.py)
    source_files,   \* the source directory: file name -> content
    target,         \* the target directory: its files and .hash files
    dry_run,        \* the dry_run argument
    force,          \* the force argument
    deploy_report,  \* what deploy_to_single_target reported, per file
    \* the compile command with its change tracking and output writer
    inputs,         \* the input tree's content and the stored baseline hash
    output,         \* the output file's content and its hash record
    compile_result, \* what the last run_compile_all did
    \* the containment boundary of the inliner and the graph builder
    ref_lines,      \* the document's script field: its reference lines
    scripts,        \* the scripts on disk: resolved path -> its source lines
    skip_root_checks,  \* BASH2GITLAB_SKIP_ROOT_CHECKS is set
    inline_trace,   \* the substitutions the inliner made for the document
    graph,          \* the edges the graph builder found for the document
    \* drift detection over one output file and its two hash records
    out_content,    \* the output file's lines on disk, or NoFile
    central_hash,   \* the record under .bash2gitlab/output_hashes, or NoFile
    legacy_hash,    \* the sibling <output>.hash record, or NoFile
    migrated,       \* what the last migrate_hash_file returned
    drift_report,   \* what run_detect_drift returned and printed
    drift_exit,     \* the exit status of the detect-drift command
    \* the worker pool of the compile command and the records its workers write
    out_paths,      \* each document's output file
    jobs,           \* each document's worker: queued, running, done or failed
    records,        \* the record files written: path -> the documents there
    pool_state,     \* the run: compiling, marked (baseline stored) or aborted
    \* the input change detector over one input directory
    input_files,    \* the relevant files of the directory: name -> content
    input_hashes,   \* the stored baseline: file name -> normalized hash
    \* one script-bearing field handed to process_script_list
    field_value,    \* the field's value: a plain string, a literal block or a list
    field_sources,  \* the collected script sources: key -> content
    field_result,   \* what process_script_list returned for the field
    \* the walk that inlines the source lines of one entry script
    walk_tree,      \* the scripts on disk: resolved path -> the paths it sources
    walk_stack,     \* the source lines still to be resolved, innermost first
    walk_visited,   \* the resolved paths already read
    walk_expanded,  \* how many times each path's content was expanded
    walk_status,    \* "walking", "done" or "raised" (a sourced file is missing)
    \* the top-level keys of one document through inline_gitlab_scripts
    doc_keys,       \* the top-level keys of the loaded document, in file order
    doc_globals,    \* whether global variables were given
    ordered_keys,   \* the top-level keys of the dumped document
    \* the task registry of the web API and its background operations
    tasks,          \* the registry: task id -> status, progress, error, completed_at
    operations      \* where each task's background compile operation stands

parseVars == <<cmd_line, n_pieces, parse_result>>
inlineVars == <<script_list, script_files, scripts_is_dir, yaml_vars,
                global_vars, job_vars_file, output_file, compiled,
                exit_status>>

artVars == <<art_line, art_sizes, max_size, art_result>>

deployVars == <<source_files, target, dry_run, force, deploy_report>>

compileVars == <<inputs, output, compile_result>>

traceVars == <<ref_lines, scripts, skip_root_checks, inline_trace, graph>>

driftVars == <<out_content, central_hash, legacy_hash, migrated,
               drift_report, drift_exit>>

poolVars == <<out_paths, jobs, records, pool_state>>

detectVars == <<input_files, input_hashes>>

fieldVars == <<field_value, field_sources, field_result>>

walkVars == <<walk_tree, walk_stack, walk_visited, walk_expanded, walk_status>>

keysVars == <<doc_keys, doc_globals, ordered_keys>>

tasksVars == <<tasks, operations>>

vars == <<parseVars, inlineVars, artVars, deployVars, compileVars, traceVars,
    driftVars, poolVars, detectVars, fieldVars, walkVars, keysVars,
    tasksVars>>

\* What each component leaves alone
notParseVars == <<inlineVars, artVars, deployVars, compileVars, traceVars,
    driftVars, poolVars, detectVars, fieldVars, walkVars, keysVars,
    tasksVars>>
notInlineVars == <<parseVars, artVars, deployVars, compileVars, traceVars,
    driftVars, poolVars, detectVars, fieldVars, walkVars, keysVars,
    tasksVars>>
notArtVars == <<parseVars, inlineVars, deployVars, compileVars, traceVars,
    driftVars, poolVars, detectVars, fieldVars, walkVars, keysVars,
    tasksVars>>
notDeployVars == <<parseVars, inlineVars, artVars, compileVars, traceVars,
    driftVars, poolVars, detectVars, fieldVars, walkVars, keysVars,
    tasksVars>>
notCompileVars == <<parseVars, inlineVars, artVars, deployVars, traceVars,
    driftVars, poolVars, detectVars, fieldVars, walkVars, keysVars,
    tasksVars>>
notTraceVars == <<parseVars, inlineVars, artVars, deployVars, compileVars,
    driftVars, poolVars, detectVars, fieldVars, walkVars, keysVars,
    tasksVars>>
notDriftVars == <<parseVars, inlineVars, artVars, deployVars, compileVars,
    traceVars, poolVars, detectVars, fieldVars, walkVars, keysVars,
    tasksVars>>
notPoolVars == <<parseVars, inlineVars, artVars, deployVars, compileVars,
    traceVars, driftVars, detectVars, fieldVars, walkVars, keysVars,
    tasksVars>>
notDetectVars == <<parseVars, inlineVars, artVars, deployVars, compileVars,
    traceVars, driftVars, poolVars, fieldVars, walkVars, keysVars, tasksVars>>
notFieldVars == <<parseVars, inlineVars, artVars, deployVars, compileVars,
    traceVars, driftVars, poolVars, detectVars, walkVars, keysVars,
    tasksVars>>
notWalkVars == <<parseVars, inlineVars, artVars, deployVars, compileVars,
    traceVars, driftVars, poolVars, detectVars, fieldVars, keysVars,
    tasksVars>>
notKeysVars == <<parseVars, inlineVars, artVars, deployVars, compileVars,
    traceVars, driftVars, poolVars, detectVars, fieldVars, walkVars,
    tasksVars>>
notTasksVars == <<parseVars, inlineVars, artVars, deployVars, compileVars,
    traceVars, driftVars, poolVars, detectVars, fieldVars, walkVars,
    keysVars>>

\* A mapping with no keys (an empty dict)
EmptyMap == [k \in {} |-> <<>>]

NoVariables == [present |-> FALSE, map |-> EmptyMap]

\* process_uncompiled_directory has not run
NotCompiled ==
    [status |-> "notrun", err |-> "none", ref |-> <<>>,
     variables |-> NoVariables,
     script |-> [form |-> "none", lines |-> <<>>, text |-> <<>>,
                 err |-> "none", ref |-> <<>>]]

\* A line that is not an inline-artifact pragma
NoPragma == [pragma |-> FALSE, source_path |-> <<>>, format |-> "none"]

\* maybe_inline_artifact has not run
ArtNotRun == [kind |-> "notrun", log |-> "none", source_path |-> <<>>,
              format_type |-> "none", archive |-> "none"]

\* The values a component's variables have while another component runs
ParserIdle ==
    /\ cmd_line = <<>>
    /\ n_pieces = 0
    /\ parse_result = [kind |-> "notrun", path |-> <<>>]

InlineIdle ==
    /\ script_list = <<>>
    /\ script_files = EmptyMap
    /\ scripts_is_dir = TRUE
    /\ exit_status = 0
    /\ yaml_vars = NoVariables
    /\ global_vars = EmptyMap
    /\ job_vars_file = EmptyMap
    /\ output_file = "absent"
    /\ compiled = NotCompiled

ArtifactIdle ==
    /\ art_line = NoPragma
    /\ art_sizes = EmptyMap
    /\ max_size = 1
    /\ art_result = ArtNotRun

\* A target directory that does not exist
NoTarget == [dir |-> FALSE, gitignore |-> FALSE, files |-> EmptyMap,
             hashes |-> EmptyMap]

\* deploy_to_single_target has not run
NotDeployed == [done |-> FALSE, lines |-> <<>>]

DeployIdle ==
    /\ source_files = EmptyMap
    /\ target = NoTarget
    /\ dry_run = FALSE
    /\ force = FALSE
    /\ deploy_report = NotDeployed

\* No output file and no hash record
NoOutput == [content |-> 0, hash |-> <<>>]

\* run_compile_all has not run
NoCompile == [kind |-> "notrun", dry_run |-> FALSE, force |-> FALSE,
              inlined |-> 0, wrote |-> FALSE]

CompileIdle ==
    /\ inputs = [version |-> 1, baseline |-> 0]
    /\ output = NoOutput
    /\ compile_result = NoCompile

\* Neither the inliner nor the graph builder has walked the document
NotTraced == [status |-> "notrun", edges |-> {}, refused |-> {}]

TraceIdle ==
    /\ ref_lines = <<>>
    /\ scripts = EmptyMap
    /\ skip_root_checks = FALSE
    /\ inline_trace = NotTraced
    /\ graph = NotTraced

\* A file that does not exist
NoFile == <<"absent">>

\* migrate_hash_file has not run
NotMigrated == [ran |-> FALSE, returned |-> FALSE]

\* run_detect_drift has not run
NoDriftReport == [kind |-> "notrun", result |-> 0, removed |-> <<>>,
                  added |-> <<>>]

DriftIdle ==
    /\ out_content = NoFile
    /\ central_hash = NoFile
    /\ legacy_hash = NoFile
    /\ migrated = NotMigrated
    /\ drift_report = NoDriftReport
    /\ drift_exit = 0

\* No document has been handed to the worker pool
PoolIdle ==
    /\ out_paths = <<>>
    /\ jobs = <<>>
    /\ records = EmptyMap
    /\ pool_state = "compiling"

\* An empty input directory without a baseline
DetectIdle ==
    /\ input_files = EmptyMap
    /\ input_hashes = EmptyMap

NoField == [shape |-> "none", lines |-> <<>>]
NotProcessed == [form |-> "notrun", lines |-> <<>>, text |-> <<>>, err |-> "none",
                 ref |-> <<>>]

\* A field nobody handed over yet
FieldIdle ==
    /\ field_value = NoField
    /\ field_sources = EmptyMap
    /\ field_result = NotProcessed

\* No entry script handed to the reader yet
WalkIdle ==
    /\ walk_tree = EmptyMap
    /\ walk_stack = <<>>
    /\ walk_visited = {}
    /\ walk_expanded = EmptyMap
    /\ walk_status = "done"

NotDumped == [done |-> FALSE, keys |-> <<>>]

\* No document loaded
KeysIdle ==
    /\ doc_keys = <<>>
    /\ doc_globals = FALSE
    /\ ordered_keys = NotDumped

\* A server that started no task
TasksIdle ==
    /\ tasks = EmptyMap
    /\ operations = EmptyMap

IdleButParser ==
    /\ InlineIdle
    /\ ArtifactIdle
    /\ DeployIdle
    /\ CompileIdle
    /\ TraceIdle
    /\ DriftIdle
    /\ PoolIdle
    /\ DetectIdle
    /\ FieldIdle
    /\ WalkIdle
    /\ KeysIdle
    /\ TasksIdle
IdleButInline ==
    /\ ParserIdle
    /\ ArtifactIdle
    /\ DeployIdle
    /\ CompileIdle
    /\ TraceIdle
    /\ DriftIdle
    /\ PoolIdle
    /\ DetectIdle
    /\ FieldIdle
    /\ WalkIdle
    /\ KeysIdle
    /\ TasksIdle
IdleButArtifact ==
    /\ ParserIdle
    /\ InlineIdle
    /\ DeployIdle
    /\ CompileIdle
    /\ TraceIdle
    /\ DriftIdle
    /\ PoolIdle
    /\ DetectIdle
    /\ FieldIdle
    /\ WalkIdle
    /\ KeysIdle
    /\ TasksIdle
IdleButDeploy ==
    /\ ParserIdle
    /\ InlineIdle
    /\ ArtifactIdle
    /\ CompileIdle
    /\ TraceIdle
    /\ DriftIdle
    /\ PoolIdle
    /\ DetectIdle
    /\ FieldIdle
    /\ WalkIdle
    /\ KeysIdle
    /\ TasksIdle
IdleButCompile ==
    /\ ParserIdle
    /\ InlineIdle
    /\ ArtifactIdle
    /\ DeployIdle
    /\ TraceIdle
    /\ DriftIdle
    /\ PoolIdle
    /\ DetectIdle
    /\ FieldIdle
    /\ WalkIdle
    /\ KeysIdle
    /\ TasksIdle
IdleButTrace ==
    /\ ParserIdle
    /\ InlineIdle
    /\ ArtifactIdle
    /\ DeployIdle
    /\ CompileIdle
    /\ DriftIdle
    /\ PoolIdle
    /\ DetectIdle
    /\ FieldIdle
    /\ WalkIdle
    /\ KeysIdle
    /\ TasksIdle
IdleButDrift ==
    /\ ParserIdle
    /\ InlineIdle
    /\ ArtifactIdle
    /\ DeployIdle
    /\ CompileIdle
    /\ TraceIdle
    /\ PoolIdle
    /\ DetectIdle
    /\ FieldIdle
    /\ WalkIdle
    /\ KeysIdle
    /\ TasksIdle
IdleButPool ==
    /\ ParserIdle
    /\ InlineIdle
    /\ ArtifactIdle
    /\ DeployIdle
    /\ CompileIdle
    /\ TraceIdle
    /\ DriftIdle
    /\ DetectIdle
    /\ FieldIdle
    /\ WalkIdle
    /\ KeysIdle
    /\ TasksIdle
IdleButDetect ==
    /\ ParserIdle
    /\ InlineIdle
    /\ ArtifactIdle
    /\ DeployIdle
    /\ CompileIdle
    /\ TraceIdle
    /\ DriftIdle
    /\ PoolIdle
    /\ FieldIdle
    /\ WalkIdle
    /\ KeysIdle
    /\ TasksIdle
IdleButField ==
    /\ ParserIdle
    /\ InlineIdle
    /\ ArtifactIdle
    /\ DeployIdle
    /\ CompileIdle
    /\ TraceIdle
    /\ DriftIdle
    /\ PoolIdle
    /\ DetectIdle
    /\ WalkIdle
    /\ KeysIdle
    /\ TasksIdle
IdleButWalk ==
    /\ ParserIdle
    /\ InlineIdle
    /\ ArtifactIdle
    /\ DeployIdle
    /\ CompileIdle
    /\ TraceIdle
    /\ DriftIdle
    /\ PoolIdle
    /\ DetectIdle
    /\ FieldIdle
    /\ KeysIdle
    /\ TasksIdle
IdleButKeys ==
    /\ ParserIdle
    /\ InlineIdle
    /\ ArtifactIdle
    /\ DeployIdle
    /\ CompileIdle
    /\ TraceIdle
    /\ DriftIdle
    /\ PoolIdle
    /\ DetectIdle
    /\ FieldIdle
    /\ WalkIdle
    /\ TasksIdle
IdleButTasks ==
    /\ ParserIdle
    /\ InlineIdle
    /\ ArtifactIdle
    /\ DeployIdle
    /\ CompileIdle
    /\ TraceIdle
    /\ DriftIdle
    /\ PoolIdle
    /\ DetectIdle
    /\ FieldIdle
    /\ WalkIdle
    /\ KeysIdle

-----------------------------------------------------------------------------
(* Generic helpers on character sequences *)

Whitespace == {" ", "\t", "\r", "\n"}
Quotes == {"'", "\""}
EscapedQuotes == {"\""}

UpperSeq == <<"A","B","C","D","E","F","G","H","I","J","K","L","M",
              "N","O","P","Q","R","S","T","U","V","W","X","Y","Z">>
LowerSeq == <<"a","b","c","d","e","f","g","h","i","j","k","l","m",
              "n","o","p","q","r","s","t","u","v","w","x","y","z">>
Digits == {"0","1","2","3","4","5","6","7","8","9"}

Range(f) == {f[i] : i \in DOMAIN f}

LowerChar(c) ==
    IF c \in Range(UpperSeq)
    THEN LowerSeq[CHOOSE i \in DOMAIN UpperSeq : UpperSeq[i] = c]
    ELSE c

StrLower(s) == [i \in DOMAIN s |-> LowerChar(s[i])]

\* str.replace(old, new) for single characters
ReplaceChar(s, old, new) == [i \in DOMAIN s |-> IF s[i] = old THEN new ELSE s[i]]

StartsWithChar(s, c) == Len(s) > 0 /\ s[1] = c

\* str.split(sep) for a single-character separator
RECURSIVE SplitOn(_, _)
SplitOn(s, sep) ==
    IF \A i \in DOMAIN s : s[i] # sep
    THEN <<s>>
    ELSE LET k == CHOOSE i \in DOMAIN s : s[i] = sep /\ \A j \in 1..(i-1) : s[j] # sep
         IN <<SubSeq(s, 1, k-1)>> \o SplitOn(SubSeq(s, k+1, Len(s)), sep)

\* sep.join(parts)
RECURSIVE JoinWith(_, _)
JoinWith(parts, sep) ==
    IF parts = <<>> THEN <<>>
    ELSE IF Len(parts) = 1 THEN parts[1]
    ELSE parts[1] \o <<sep>> \o JoinWith(Tail(parts), sep)

\* str.lstrip(chars): drop leading characters that are in the set
RECURSIVE LStripChars(_, _)
LStripChars(s, chars) ==
    IF s # <<>> /\ s[1] \in chars THEN LStripChars(Tail(s), chars) ELSE s

RECURSIVE RStripChars(_, _)
RStripChars(s, chars) ==
    IF s # <<>> /\ s[Len(s)] \in chars
    THEN RStripChars(SubSeq(s, 1, Len(s)-1), chars) ELSE s

StripWs(s) == RStripChars(LStripChars(s, Whitespace), Whitespace)

-----------------------------------------------------------------------------
(* pathlib.PurePosixPath, as far as the code uses it *)

\* The parts of a path after its root: split on "/", dropping "" and "."
PathParts(s) == SelectSeq(SplitOn(s, "/"), LAMBDA p : p # <<>> /\ p # <<".">>)

\* The root: "//" for exactly two leading slashes, "/" for one or three and more
PathRoot(s) ==
    LET lead == Len(s) - Len(LStripChars(s, {"/"}))
    IN IF lead = 0 THEN <<>> ELSE IF lead = 2 THEN <<"/", "/">> ELSE <<"/">>

PathName(s) == LET ps == PathParts(s) IN IF ps = <<>> THEN <<>> ELSE ps[Len(ps)]

\* PurePath.suffix: from the last dot of the name, unless the dot is first or last
PathSuffix(s) ==
    LET name == PathName(s)
        dots == {i \in DOMAIN name : name[i] = "."}
    IN IF dots = {} THEN <<>>
       ELSE LET i == CHOOSE d \in dots : \A e \in dots : e <= d
            IN IF 1 < i /\ i < Len(name) THEN SubSeq(name, i, Len(name)) ELSE <<>>

\* PurePath.as_posix() / str(path)
PathStr(s) ==
    LET r == PathRoot(s) \o JoinWith(PathParts(s), "/")
    IN IF r = <<>> THEN <<".">> ELSE r

-----------------------------------------------------------------------------
(* shlex in POSIX mode with whitespace_split = True *)

LexOk(toks) == [ok |-> TRUE, toks |-> toks]
LexError == [ok |-> FALSE, toks |-> <<>>]

\* instream.readline(): the position after the next newline
SkipLine(s, i) ==
    LET nls == {j \in i..Len(s) : s[j] = "\n"}
    IN IF nls = {} THEN Len(s) + 1
       ELSE (CHOOSE j \in nls : \A k \in nls : j <= k) + 1

\* shlex.read_token, iterated to the end of the input.  st is the lexer state
\* (" " between tokens, "a" in a word, a quote character, or an escape
\* character), est the state to return to after an escape.
RECURSIVE ShlexRun(_, _, _, _, _, _, _, _)
ShlexRun(s, i, st, est, tok, quoted, toks, cfg) ==
    IF i > Len(s) THEN
        IF st = " " THEN LexOk(toks)
        ELSE IF st = "a" THEN LexOk(Append(toks, tok))
        ELSE LexError   \* "No closing quotation" / "No escaped character"
    ELSE
    LET c == s[i] IN
    IF st = " " THEN
        IF c \in Whitespace THEN ShlexRun(s, i+1, " ", est, tok, quoted, toks, cfg)
        ELSE IF c \in cfg.commenters
            THEN ShlexRun(s, SkipLine(s, i+1), " ", est, tok, quoted, toks, cfg)
        ELSE IF c \in cfg.escape THEN ShlexRun(s, i+1, c, "a", tok, quoted, toks, cfg)
        ELSE IF c \in Quotes THEN ShlexRun(s, i+1, c, est, tok, quoted, toks, cfg)
        ELSE ShlexRun(s, i+1, "a", est, <<c>>, quoted, toks, cfg)
    ELSE IF st \in Quotes THEN
        IF c = st THEN ShlexRun(s, i+1, "a", est, tok, TRUE, toks, cfg)
        ELSE IF c \in cfg.escape /\ st \in EscapedQuotes
            THEN ShlexRun(s, i+1, c, st, tok, TRUE, toks, cfg)
        ELSE ShlexRun(s, i+1, st, est, Append(tok, c), TRUE, toks, cfg)
    ELSE IF st \in cfg.escape THEN
        IF est \in Quotes /\ c # st /\ c # est
        THEN ShlexRun(s, i+1, est, est, tok \o <<st, c>>, quoted, toks, cfg)
        ELSE ShlexRun(s, i+1, est, est, Append(tok, c), quoted, toks, cfg)
    ELSE \* st = "a"
        IF c \in Whitespace
            THEN ShlexRun(s, i+1, " ", est, <<>>, FALSE, Append(toks, tok), cfg)
        ELSE IF c \in cfg.commenters
            THEN ShlexRun(s, SkipLine(s, i+1), " ", est, <<>>, FALSE, Append(toks, tok), cfg)
        ELSE IF c \in Quotes THEN ShlexRun(s, i+1, c, est, tok, quoted, toks, cfg)
        ELSE IF c \in cfg.escape THEN ShlexRun(s, i+1, c, "a", tok, quoted, toks, cfg)
        ELSE ShlexRun(s, i+1, "a", est, Append(tok, c), quoted, toks, cfg)

Shlex(s, cfg) == ShlexRun(s, 1, " ", "a", <<>>, FALSE, <<>>, cfg)

-----------------------------------------------------------------------------
(* bash2gitlab/utils/parse_bash.py *)

_EXECUTORS == {<<"b","a","s","h">>, <<"s","h">>, <<"p","w","s","h">>}
_DOT_SOURCE == {<<"s","o","u","r","c","e">>, <<".">>}
_VALID_SUFFIXES == {<<".","s","h">>, <<".","p","s","1">>, <<".","b","a","s","h">>}

IdentStart == Range(UpperSeq) \cup Range(LowerSeq) \cup {"_"}
IdentChar == IdentStart \cup Digits

\* _ENV_ASSIGN_RE = ^[A-Za-z_][A-Za-z0-9_]*=
EnvAssignMatch(tok) ==
    \E k \in DOMAIN tok :
        /\ k > 1
        /\ tok[k] = "="
        /\ tok[1] \in IdentStart
        /\ \A j \in 2..(k-1) : tok[j] \in IdentChar

\* What a function returned: nothing, a path, or an exception that escaped it
NoneVal == [kind |-> "none", path |-> <<>>]
PathVal(p) == [kind |-> "path", path |-> p]
RaiseVal == [kind |-> "raise", path |-> <<>>]
NotRun == [kind |-> "notrun", path |-> <<>>]

\* split_cmd: the tokens, or None for unbalanced quotes (ValueError is caught)
split_cmd_uncaught(cmd) ==
    LET r == Shlex(cmd, [commenters |-> {"#"}, escape |-> {}])
    IN IF r.ok THEN [kind |-> "tokens", toks |-> r.toks]
       ELSE [kind |-> "raise", toks |-> <<>>]

split_cmd(cmd) ==
    LET r == Shlex(cmd, [commenters |-> {"#"}, escape |-> {}])
    IN IF r.ok THEN [kind |-> "tokens", toks |-> r.toks]
       ELSE [kind |-> "none", toks |-> <<>>]

is_executor(tok) == tok \in _EXECUTORS

is_script_any_prefix(tok) ==
    StrLower(PathSuffix(ReplaceChar(tok, "\\", "/"))) \in _VALID_SUFFIXES

is_script(tok) ==
    /\ ~StartsWithChar(tok, "-")
    /\ StrLower(PathSuffix(ReplaceChar(tok, "\\", "/"))) \in _VALID_SUFFIXES

to_posix(tok) == PathStr(ReplaceChar(tok, "\\", "/"))

extract_script_path(cmd) ==
    LET r == split_cmd(cmd)
        tokens == r.toks
    IN IF r.kind = "raise" THEN RaiseVal
       ELSE IF r.kind = "none" \/ tokens = <<>> THEN NoneVal
       ELSE IF EnvAssignMatch(tokens[1]) THEN NoneVal
       ELSE IF Len(tokens) = 1 /\ is_script(tokens[1]) THEN PathVal(to_posix(tokens[1]))
       ELSE IF Len(tokens) = 2 /\ is_executor(tokens[1]) /\ is_script(tokens[2])
            THEN PathVal(to_posix(tokens[2]))
       ELSE IF Len(tokens) = 2 /\ tokens[1] \in _DOT_SOURCE /\ is_script(tokens[2])
            THEN PathVal(to_posix(tokens[2]))
       ELSE NoneVal

-----------------------------------------------------------------------------
(* The parser's inputs: command lines assembled from pieces *)

MaxPieces == 4

Pieces == {
    <<"b","a","s","h"," ">>,            \* an executor and a blank
    <<"."," ">>,                        \* the dot-source alias and a blank
    <<".","/","a",".","s","h">>,        \* a POSIX script path
    <<"d","\\","b",".","S","H">>,       \* a Windows-style path, upper-case suffix
    <<"-","x">>,                        \* a flag
    <<"V","=">>,                        \* the start of an assignment
    <<"x">>,                            \* a plain word
    <<" ">>,
    <<"'">>,
    <<"#">>,
    <<"\n">>
}

ParserInit ==
    /\ cmd_line = <<>>
    /\ n_pieces = 0
    /\ parse_result = NotRun
    /\ IdleButParser

AppendPiece(p) ==
    /\ parse_result = NotRun
    /\ n_pieces < MaxPieces
    /\ cmd_line' = cmd_line \o p
    /\ n_pieces' = n_pieces + 1
    /\ UNCHANGED <<parse_result, notParseVars>>

RunExtract ==
    /\ parse_result = NotRun
    /\ parse_result' = extract_script_path(cmd_line)
    /\ UNCHANGED <<cmd_line, n_pieces, notParseVars>>

ParseNext ==
    \/ \E p \in Pieces : AppendPiece(p)
    \/ RunExtract

SpecParse == ParserInit /\ [][ParseNext]_vars

-----------------------------------------------------------------------------
(* Claims about the safe reference parser *)

ParseDone == parse_result.kind # "notrun"

\* The tokens of the line, <<>> when it does not tokenize
LineTokens == split_cmd(cmd_line).toks

HasFlagToken(toks) == \E i \in DOMAIN toks : StartsWithChar(toks[i], "-")
ScriptTokens(toks) == {i \in DOMAIN toks : is_script(toks[i])}
ArgumentAfterScript(toks) == \E i \in ScriptTokens(toks) : i < Len(toks)
MoreThanOneScript(toks) == Cardinality(ScriptTokens(toks)) > 1
LeadingAssignment(toks) == toks # <<>> /\ EnvAssignMatch(toks[1])

\* C2: a command line with a flag, an argument after the script path, more
\* than one script, or a leading VAR=value assignment yields no match.
C2_UnsafeLineRejected ==
    ParseDone =>
        ((\/ HasFlagToken(LineTokens)
          \/ ArgumentAfterScript(LineTokens)
          \/ MoreThanOneScript(LineTokens)
          \/ LeadingAssignment(LineTokens)) => parse_result = NoneVal)

\* C2 witness: "bash -x ./a.sh"-like line (executor, flag, script) was rejected
C2_Witness ==
    /\ parse_result = NoneVal
    /\ Len(LineTokens) = 3
    /\ is_executor(LineTokens[1])
    /\ HasFlagToken(LineTokens)
    /\ is_script(LineTokens[3])

\* The three accepted token shapes
AcceptedShape(toks) ==
    \/ Len(toks) = 1 /\ is_script(toks[1])
    \/ Len(toks) = 2 /\ is_executor(toks[1]) /\ is_script(toks[2])
    \/ Len(toks) = 2 /\ toks[1] \in _DOT_SOURCE /\ is_script(toks[2])

NoBackslash(p) == \A i \in DOMAIN p : p[i] # "\\"

\* C3 as stated: a path is returned exactly for the three token shapes, the
\* path has forward slashes only, and nothing is raised.
C3_ShapesExactly ==
    ParseDone =>
        /\ parse_result.kind \in {"path", "none"}
        /\ (parse_result.kind = "path") <=> AcceptedShape(LineTokens)
        /\ NoBackslash(parse_result.path)

\* C3 amended: a path is returned exactly when the tokens have one of the
\* three shapes and the first token is not a leading IDENT= assignment; the
\* path has forward slashes only; every other line, an unbalanced-quote line
\* included, yields None and nothing is raised.
C3_ShapesExceptAssignment ==
    ParseDone =>
        /\ parse_result.kind \in {"path", "none"}
        /\ (parse_result.kind = "path") <=>
               (AcceptedShape(LineTokens) /\ ~LeadingAssignment(LineTokens))
        /\ NoBackslash(parse_result.path)
        /\ (~Shlex(cmd_line, [commenters |-> {"#"}, escape |-> {}]).ok
               => parse_result = NoneVal)

\* C3 witness: a dot-sourced Windows-style path came back with forward slashes
C3_Witness ==
    /\ parse_result.kind = "path"
    /\ Len(LineTokens) = 2
    /\ LineTokens[1] = <<".">>
    /\ ~NoBackslash(LineTokens[2])
    /\ parse_result.path = <<"d","/","b",".","S","H">>

-----------------------------------------------------------------------------
(* bash2gitlab/compile_all.py: the script inliner *)

\* str.isspace()
IsSpace(tok) == tok # <<>> /\ \A i \in DOMAIN tok : tok[i] \in Whitespace

\* str.splitlines() on text whose only line boundary is "\n"
SplitLines(text) == IF text = <<>> THEN <<>> ELSE SplitOn(text, "\n")

CompileAllExecutors == {<<"b","a","s","h">>, <<"s","h">>, <<"s","o","u","r","c","e">>}

\* The loop of compile_all.extract_script_path over the tokens: count the
\* "parts"; path_found is the last token with suffix ".sh", and it is
\* returned only when parts = 1, that is when it is the only such token
script_path_of_tokens(tokens) ==
    LET shIdx == {i \in DOMAIN tokens : PathSuffix(tokens[i]) = <<".","s","h">>}
        otherIdx == {i \in DOMAIN tokens :
                        /\ PathSuffix(tokens[i]) # <<".","s","h">>
                        /\ ~IsSpace(tokens[i])
                        /\ tokens[i] \notin CompileAllExecutors}
    IN IF shIdx # {} /\ Cardinality(shIdx) + Cardinality(otherIdx) = 1
       THEN PathVal(ReplaceChar(
                PathStr(tokens[CHOOSE i \in shIdx : TRUE]), "\\", "/"))
       ELSE NoneVal

TokensOrNone(lexed) == IF lexed.ok THEN script_path_of_tokens(lexed.toks) ELSE NoneVal

\* compile_all.extract_script_path: shlex.split, None on malformed syntax
compile_all_extract_script_path(command_line) ==
    TokensOrNone(Shlex(command_line, [commenters |-> {}, escape |-> {"\\"}]))

\* collect_script_sources: every *.sh file under the scripts directory whose
\* stripped content is not empty
collect_script_sources(files) ==
    LET keep == {f \in DOMAIN files :
                    PathSuffix(f) = <<".","s","h">> /\ StripWs(files[f]) # <<>>}
    IN [f \in keep |-> StripWs(files[f])]

\* scripts_root / rel_path, as the key of the source map (relative to the root)
ScriptKey(script_path_str) == PathStr(LStripChars(StripWs(script_path_str), {".", "/"}))

ReadOk(text) == [kind |-> "ok", text |-> text, err |-> "none"]
ReadRaise(err) == [kind |-> "raise", text |-> <<>>, err |-> err]

read_bash_script(key, script_sources) ==
    IF key \notin DOMAIN script_sources THEN ReadRaise("FileNotFoundError")
    ELSE IF StripWs(script_sources[key]) = <<>> THEN ReadRaise("ValueError")
    ELSE ReadOk(StripWs(script_sources[key]))

\* What process_script_list returns: a list of lines, one literal block
\* scalar, or an exception naming the script
ListOut(lines) == [form |-> "list", lines |-> lines, text |-> <<>>, err |-> "none", ref |-> <<>>]
LiteralOut(text) == [form |-> "literal", lines |-> <<>>, text |-> text, err |-> "none", ref |-> <<>>]
RaiseOut(err, ref) == [form |-> "raise", lines |-> <<>>, text |-> <<>>, err |-> err, ref |-> ref]
NoOut == [form |-> "none", lines |-> <<>>, text |-> <<>>, err |-> "none", ref |-> <<>>]

\* First pass: a script of more than 3 lines takes over the whole block.
\* FirstPassRead is the body of the loop for a line that names a script.
FirstPassRead(read, key) ==
    IF read.kind = "raise" THEN RaiseOut(read.err, key)
    ELSE IF Len(SplitLines(read.text)) > 3 THEN LiteralOut(read.text)
    ELSE NoOut

FirstPassLine(path, script_sources) ==
    IF path.kind # "path" THEN NoOut
    ELSE FirstPassRead(read_bash_script(ScriptKey(path.path), script_sources),
                       ScriptKey(path.path))

RECURSIVE FirstPass(_, _, _)
FirstPassNext(found, list, i, script_sources) ==
    IF found.form # "none" THEN found ELSE FirstPass(list, i + 1, script_sources)

FirstPass(list, i, script_sources) ==
    IF i > Len(list) THEN NoOut
    ELSE FirstPassNext(
            FirstPassLine(compile_all_extract_script_path(list[i]), script_sources),
            list, i, script_sources)

\* Second pass: every reference line is replaced by the script's lines.
\* SecondPassLine is what one line contributes.
SecondPassRead(read, key) ==
    IF read.kind = "raise" THEN RaiseOut(read.err, key)
    ELSE ListOut(SplitLines(read.text))

SecondPassLine(line, path, script_sources) ==
    IF path.kind # "path" THEN ListOut(<<line>>)
    ELSE SecondPassRead(read_bash_script(ScriptKey(path.path), script_sources),
                        ScriptKey(path.path))

RECURSIVE SecondPass(_, _, _, _)
SecondPassNext(got, list, i, script_sources, inlined_lines) ==
    IF got.form = "raise" THEN got
    ELSE SecondPass(list, i + 1, script_sources, inlined_lines \o got.lines)

SecondPass(list, i, script_sources, inlined_lines) ==
    IF i > Len(list) THEN ListOut(inlined_lines)
    ELSE SecondPassNext(
            SecondPassLine(list[i], compile_all_extract_script_path(list[i]),
                           script_sources),
            list, i, script_sources, inlined_lines)

FirstElseSecond(first, list, script_sources) ==
    IF first.form # "none" THEN first
    ELSE SecondPass(list, 1, script_sources, <<>>)

process_script_list(list, script_sources) ==
    FirstElseSecond(FirstPass(list, 1, script_sources), list, script_sources)

\* process_script_list on the field's value: a value that is not a list (a
\* plain string or a LiteralScalarString) is returned as it is
ScalarOut(value) ==
    [form |-> value.shape, lines |-> <<>>, text |-> value.lines[1], err |-> "none",
     ref |-> <<>>]

process_script_value(value, script_sources) ==
    IF value.shape # "list" THEN ScalarOut(value)
    ELSE process_script_list(value.lines, script_sources)

\* inline_gitlab_scripts, lines 162-169: the global variables are merged into
\* the document's variables, the document's own values winning
MergeVars(globals, existing) ==
    [k \in DOMAIN globals \cup DOMAIN existing |->
        IF k \in DOMAIN existing THEN existing[k] ELSE globals[k]]

merged_variables(globals, doc_vars) ==
    IF DOMAIN globals # {}
    THEN [present |-> TRUE, map |-> MergeVars(globals, doc_vars.map)]
    ELSE doc_vars

\* inline_gitlab_scripts on a document with top-level variables and one job
CompiledDocument(variables, script) ==
    [status |-> IF script.form = "raise" THEN "raise" ELSE "ok",
     variables |-> variables,
     script |-> script]

inline_gitlab_scripts(doc_vars, list, script_sources, globals) ==
    CompiledDocument(merged_variables(globals, doc_vars),
                     process_script_list(list, script_sources))

\* process_uncompiled_directory on a tree with a root document: the previous
\* output is deleted first, the document is written only after it compiled
DirectoryOutcome(doc) ==
    IF doc.status = "raise"
    THEN [NotCompiled EXCEPT !.status = "raise", !.err = doc.script.err,
                             !.ref = doc.script.ref]
    ELSE [NotCompiled EXCEPT !.status = "written", !.variables = doc.variables,
                             !.script = doc.script]

CompileWithSources(script_sources, doc_vars, list, globals) ==
    IF DOMAIN script_sources = {}
    THEN [NotCompiled EXCEPT !.status = "raise", !.err = "RuntimeError"]
    ELSE DirectoryOutcome(
            inline_gitlab_scripts(doc_vars, list, script_sources, globals))

process_uncompiled_directory(files, doc_vars, list, globals) ==
    CompileWithSources(collect_script_sources(files), doc_vars, list, globals)

\* collect_script_sources raises for a scripts directory that is not there,
\* after the previous output was deleted
CompileTree(is_dir, files, doc_vars, list, globals) ==
    IF ~is_dir
    THEN [NotCompiled EXCEPT !.status = "raise", !.err = "FileNotFoundError"]
    ELSE process_uncompiled_directory(files, doc_vars, list, globals)

\* compile_handler: 10 for FileNotFoundError, 1 for RuntimeError and
\* ValueError, 0 when the compilation returned
compile_handler(outcome) ==
    IF outcome.status # "raise" THEN 0
    ELSE IF outcome.err = "FileNotFoundError" THEN 10
    ELSE 1

-----------------------------------------------------------------------------
(* The inliner's inputs *)

MaxLines == 3

PlainLines == {<<"l","s">>, <<"i","d">>}

ScriptLines == {
    <<".","/","b",".","s","h">>,                \* ./b.sh
    <<"s","h"," ","c","/","x",".","s","h">>,    \* sh c/x.sh
    <<".",".","/","u",".","s","h">>             \* ../u.sh
}

InlineLines == PlainLines \cup ScriptLines

b_sh == <<"b",".","s","h">>
x_sh == <<"c","/","x",".","s","h">>
u_sh == <<"u",".","s","h">>

\* Scripts directories: b.sh of 2 lines with a 4-line c/x.sh and a u.sh; b.sh
\* of 3 lines alone; an empty b.sh beside a one-line c/x.sh; no scripts
FileTrees == {
    (b_sh :> <<"p","\n","q","\n">>) @@ (x_sh :> <<"1","\n","2","\n","3","\n","4">>)
        @@ (u_sh :> <<"u">>),
    (b_sh :> <<"p","\n","q","\n","r">>),
    (b_sh :> <<" ","\n">>) @@ (x_sh :> <<"1">>),
    EmptyMap
}

GlobalVarSets == {EmptyMap, ("A" :> "g") @@ ("B" :> "g")}
JobVarSets == {EmptyMap, ("B" :> "j") @@ ("C" :> "j")}
YamlVarSets == {NoVariables,
                [present |-> TRUE, map |-> ("C" :> "y")],
                [present |-> TRUE, map |-> ("B" :> "y")]}

InlineInit ==
    /\ script_list = <<>>
    /\ script_files \in FileTrees
    /\ scripts_is_dir \in BOOLEAN
    /\ scripts_is_dir \/ script_files = EmptyMap
    /\ exit_status = 0
    /\ yaml_vars \in YamlVarSets
    /\ global_vars \in GlobalVarSets
    /\ job_vars_file \in JobVarSets
    /\ output_file \in {"absent", "stale"}
    /\ compiled = NotCompiled
    /\ IdleButInline

AppendLine(line) ==
    /\ compiled.status = "notrun"
    /\ Len(script_list) < MaxLines
    /\ script_list' = Append(script_list, line)
    /\ UNCHANGED <<script_files, scripts_is_dir, yaml_vars, global_vars,
                   job_vars_file, output_file, compiled, exit_status,
                   notInlineVars>>

ProcessUncompiledDirectory ==
    /\ compiled.status = "notrun"
    /\ compiled' = CompileTree(scripts_is_dir, script_files, yaml_vars,
                               script_list, global_vars)
    /\ output_file' = IF compiled'.status = "written" THEN "compiled" ELSE "absent"
    /\ exit_status' = compile_handler(compiled')
    /\ UNCHANGED <<script_list, script_files, scripts_is_dir, yaml_vars,
                   global_vars, job_vars_file, notInlineVars>>

InlineNext ==
    \/ \E line \in InlineLines : AppendLine(line)
    \/ ProcessUncompiledDirectory

SpecInline == InlineInit /\ [][InlineNext]_vars

-----------------------------------------------------------------------------
(* One script-bearing field: a string, a literal block or a list *)

MaxItems == 2

\* script: ./b.sh, script: | <block>, script: [..]
StrField(line) == [shape |-> "str", lines |-> <<line>>]
LiteralField(line) == [shape |-> "literal", lines |-> <<line>>]
ListField(lines) == [shape |-> "list", lines |-> lines]

FieldValues ==
    {StrField(line) : line \in InlineLines}
    \cup {LiteralField(line) : line \in InlineLines}
    \cup UNION {{ListField(lines) : lines \in [1..n -> InlineLines]} : n \in 0..MaxItems}

FieldInit ==
    /\ field_value \in FieldValues
    /\ field_sources \in FileTrees
    /\ field_result = NotProcessed
    /\ IdleButField

ProcessScriptList ==
    /\ field_result = NotProcessed
    /\ field_result' = process_script_value(field_value, field_sources)
    /\ UNCHANGED <<field_value, field_sources, notFieldVars>>

FieldNext == ProcessScriptList

SpecField == FieldInit /\ [][FieldNext]_vars

\* C25: a field whose value is a single string, plain or literal block, is
\* processed as the list of that one item: process_script_list returns for it
\* what it returns for the one-item list: the list of that item, or the
\* inlined script when the item refers to one.
C25_StringAsOneItemList ==
    (field_result # NotProcessed /\ field_value.shape # "list") =>
        field_result = process_script_list(field_value.lines, field_sources)

-----------------------------------------------------------------------------
(* Claims about the script inliner *)

Written == compiled.status = "written"

SourceMap == collect_script_sources(script_files)

IsReference(line) == compile_all_extract_script_path(line).kind = "path"

ReferenceLines == {i \in DOMAIN script_list : IsReference(script_list[i])}

\* The lines of the compiled script field, whichever form it has
OutputLines == IF compiled.script.form = "literal"
               THEN SplitLines(compiled.script.text)
               ELSE compiled.script.lines

\* A slot where a marker comment is expected
BeginSlot == <<"#", "B">>
EndSlot == <<"#", "E">>

\* The field with every reference line replaced by marker, script, marker
RECURSIVE SplicedWithMarkers(_, _)
SplicedWithMarkers(list, i) ==
    IF i > Len(list) THEN <<>>
    ELSE LET p == compile_all_extract_script_path(list[i])
             body == SplitLines(SourceMap[ScriptKey(p.path)])
         IN (IF p.kind = "path" THEN <<BeginSlot>> \o body \o <<EndSlot>>
                                ELSE <<list[i]>>)
            \o SplicedWithMarkers(list, i + 1)

MatchesSplice(out, expected) ==
    /\ Len(out) = Len(expected)
    /\ \A k \in DOMAIN expected :
          IF expected[k] \in {BeginSlot, EndSlot}
          THEN StartsWithChar(out[k], "#")
          ELSE out[k] = expected[k]

\* C4: when the field has a safe script reference, the compiled field is the
\* original lines in order with each reference replaced by the script's
\* lines between a BEGIN and an END marker comment.
C4_SplicedBetweenMarkers ==
    (Written /\ ReferenceLines # {}) =>
        MatchesSplice(OutputLines, SplicedWithMarkers(script_list, 1))

\* C5: a field of plain lines stays a list when it has at most 2 lines and
\* becomes one literal block, the lines joined by newline, when it has 3 or more.
C5_ListUpToTwoElseLiteral ==
    (Written /\ ReferenceLines = {}) =>
        IF Len(script_list) <= 2
        THEN compiled.script = ListOut(script_list)
        ELSE compiled.script = LiteralOut(JoinWith(script_list, "\n"))

\* C6: the compiled variables are the global file's, overridden by the job
\* variable file's, overridden by the document's own.
C6_InlineOverJobOverGlobal ==
    Written =>
        compiled.variables.map =
            MergeVars(MergeVars(global_vars, job_vars_file), yaml_vars.map)

\* The run found nothing to work on: the scripts directory is missing or
\* holds no script, and no reference of the document is to blame
NothingFound == compiled.status = "raise" /\ compiled.ref = <<>>

\* The exit statuses of a run that failed while substituting a reference:
\* read_bash_script raises FileNotFoundError for a script that is not in the
\* source map
InliningFailureStatuses ==
    {compile_handler(DirectoryOutcome(CompiledDocument(NoVariables,
                                                       RaiseOut(err, <<"x">>)))) :
        err \in {"FileNotFoundError"}}

-----------------------------------------------------------------------------
(* bash2gitlab/commands/compile_artifacts.py: the artifact packager *)

\* Paths are sequences of segments from the filesystem root
input_dir == <<"in">>

\* Path.resolve() without symbolic links: ".." drops the last segment
RECURSIVE ResolveParts(_, _)
ResolveParts(parts, acc) ==
    IF parts = <<>> THEN acc
    ELSE IF Head(parts) = ".."
         THEN ResolveParts(Tail(parts),
                           IF acc = <<>> THEN acc ELSE SubSeq(acc, 1, Len(acc) - 1))
    ELSE ResolveParts(Tail(parts), Append(acc, Head(parts)))

\* Path.relative_to(root) does not raise
IsRelativeTo(path, root) ==
    Len(path) >= Len(root) /\ SubSeq(path, 1, Len(root)) = root

\* get_warn_artifact_size()
warn_size == 1

ArtNone(log, source_path) ==
    [kind |-> "none", log |-> log, source_path |-> source_path,
     format_type |-> "none", archive |-> "none"]

\* The shim: the format its extraction command is for, and the format of
\* the archive it carries (create_zip_artifact is the only packer)
ArtShim(log, source_path, format_type) ==
    [kind |-> "shim", log |-> log, source_path |-> source_path,
     format_type |-> format_type, archive |-> "zip"]

\* The try block: ArtifactInlineError is raised for an oversized archive and
\* caught in the same function, which then returns (None, None)
PackArtifact(source_path, format_type, compressed_size, limit) ==
    IF compressed_size > limit THEN ArtNone("error", source_path)
    ELSE IF compressed_size > warn_size
         THEN ArtShim("warning", source_path, format_type)
    ELSE ArtShim("info", source_path, format_type)

\* A packager without the check that the source is within input_dir
InlineUncontained(source_path, format_type, sizes, limit) ==
    IF source_path \notin DOMAIN sizes THEN ArtNone("warning", source_path)
    ELSE PackArtifact(source_path, format_type, sizes[source_path], limit)

InlineResolved(source_path, format_type, sizes, limit) ==
    IF ~IsRelativeTo(source_path, input_dir) THEN ArtNone("error", source_path)
    ELSE IF source_path \notin DOMAIN sizes THEN ArtNone("warning", source_path)
    ELSE PackArtifact(source_path, format_type, sizes[source_path], limit)

maybe_inline_artifact(line, sizes, limit) ==
    IF ~line.pragma THEN ArtNone("none", <<>>)
    ELSE InlineResolved(ResolveParts(input_dir \o line.source_path, <<>>),
                        IF line.format = "none" THEN "zip" ELSE line.format,
                        sizes, limit)

-----------------------------------------------------------------------------
(* The packager's inputs *)

MaxBytes == 3
MaxSegments == 2

Segments == {"..", "cfg", "gone"}

SourcePaths == UNION {[1..n -> Segments] : n \in 1..MaxSegments}

ArtifactLines ==
    {NoPragma} \cup
    [pragma : {TRUE}, source_path : SourcePaths, format : {"none", "tar.gz"}]

\* The input directory holds cfg; a cfg also exists beside the input directory
TreeOfSize(n) ==
    (<<"in">> :> n + 1) @@ (<<"in", "cfg">> :> n) @@ (<<"cfg">> :> n)

ArtifactInit ==
    /\ art_line = NoPragma
    /\ \E n \in 0..MaxBytes : art_sizes = TreeOfSize(n)
    /\ max_size \in 1..MaxBytes
    /\ art_result = ArtNotRun
    /\ IdleButArtifact

OfferLine(line) ==
    /\ art_result = ArtNotRun
    /\ art_line = NoPragma
    /\ art_line' = line
    /\ UNCHANGED <<art_sizes, max_size, art_result, notArtVars>>

MaybeInlineArtifact ==
    /\ art_result = ArtNotRun
    /\ art_result' = maybe_inline_artifact(art_line, art_sizes, max_size)
    /\ UNCHANGED <<art_line, art_sizes, max_size, notArtVars>>

ArtifactNext ==
    \/ \E line \in ArtifactLines : OfferLine(line)
    \/ MaybeInlineArtifact

SpecArtifact == ArtifactInit /\ [][ArtifactNext]_vars

-----------------------------------------------------------------------------
(* Claims about failures while inlining *)

ResolvedSource == ResolveParts(input_dir \o art_line.source_path, <<>>)

Oversized ==
    /\ art_line.pragma
    /\ IsRelativeTo(ResolvedSource, input_dir)
    /\ ResolvedSource \in DOMAIN art_sizes
    /\ art_sizes[ResolvedSource] > max_size

\* C7: an artifact whose archive exceeds the maximum size aborts the compile
\* with an error; it is never answered with "no match", which leaves the
\* pragma line in the document.
C7_OversizeAborts ==
    (art_result # ArtNotRun /\ Oversized) => art_result.kind = "raise"

-----------------------------------------------------------------------------
(* Claims about the packager's containment and the archive format *)

\* The pragma's source resolves to a path outside the input directory, or to
\* one that does not exist
OutsideOrMissing ==
    /\ art_line.pragma
    /\ \/ ~IsRelativeTo(ResolvedSource, input_dir)
       \/ ResolvedSource \notin DOMAIN art_sizes

\* C21: for a pragma line whose source resolves outside the input directory
\* or does not exist, maybe_inline_artifact returns (None, None) and no
\* archive is embedded, whatever format option the line carries.
C21_OutsideOrMissingNotInlined ==
    (art_result # ArtNotRun /\ OutsideOrMissing) =>
        /\ art_result.kind = "none"
        /\ art_result.archive = "none"
        /\ art_result.log \in {"error", "warning"}

\* C21 witness: a pragma naming an existing directory beside the input
\* directory was refused
C21_Witness ==
    /\ art_result.kind = "none"
    /\ art_line.pragma
    /\ ~IsRelativeTo(ResolvedSource, input_dir)
    /\ ResolvedSource \in DOMAIN art_sizes

\* The format the pragma line asks for: zip when it has no --format option
RequestedFormat == IF art_line.format = "none" THEN "zip" ELSE art_line.format

\* C22: the embedded archive is in the requested format and the shim's
\* extraction command is the one for the format of the archive it carries.
C22_ArchiveInRequestedFormat ==
    art_result.kind = "shim" =>
        /\ art_result.archive = RequestedFormat
        /\ art_result.format_type = art_result.archive

-----------------------------------------------------------------------------
(* bash2gitlab/commands/map_deploy.py *)

\* _VALID_SUFFIXES of map_deploy, without the interpreter extensions
DeployValidSuffixes == {<<".","s","h">>, <<".","p","s","1">>, <<".","y","m","l">>,
                        <<".","y","a","m","l">>, <<".","b","a","s","h">>}

\* calculate_file_hash: one digest per content, None (<<>>) for a missing file
calculate_file_hash(files, f) ==
    IF f \in DOMAIN files THEN <<"sha256", files[f]>> ELSE <<>>

\* hash_file_path.read_text().strip(), None (<<>>) when there is no hash file
StoredHash(tree, f) == IF f \in DOMAIN tree.hashes THEN tree.hashes[f] ELSE <<>>

DeployDecisionUnforced(source_hash, target_exists, target_hash, stored_hash, forced) ==
    IF ~target_exists THEN "Deploying"
    ELSE IF stored_hash # <<>> /\ target_hash # stored_hash THEN "SkipModified"
    ELSE IF source_hash = target_hash THEN "Unchanged"
    ELSE "Updating"

\* The branch deploy_to_single_target takes for one source file
DeployDecision(source_hash, target_exists, target_hash, stored_hash, forced) ==
    IF ~target_exists THEN "Deploying"
    ELSE IF stored_hash # <<>> /\ target_hash # stored_hash /\ ~forced
         THEN "SkipModified"
    ELSE IF source_hash = target_hash THEN "Unchanged"
    ELSE "Updating"

\* mkdir, shutil.copy2 and the write of the hash file, all under "if not dry_run"
CopyAlways(tree, f, content, source_hash, dry) ==
    [tree EXCEPT !.dir = TRUE,
                 !.files = (f :> content) @@ tree.files,
                 !.hashes = (f :> source_hash) @@ tree.hashes]

CopyUnlessDryRun(tree, f, content, source_hash, dry) ==
    IF dry THEN tree
    ELSE [tree EXCEPT !.dir = TRUE,
                      !.files = (f :> content) @@ tree.files,
                      !.hashes = (f :> source_hash) @@ tree.hashes]

DeployStep(st, tree_after, f, action) ==
    [tree |-> tree_after, lines |-> Append(st.lines, [file |-> f, action |-> action])]

DeployDecided(st, f, content, source_hash, action, dry) ==
    DeployStep(st,
               IF action \in {"Deploying", "Updating"}
               THEN CopyUnlessDryRun(st.tree, f, content, source_hash, dry)
               ELSE st.tree,
               f, action)

\* The "was modified locally" warning printed before the skip or the overwrite
WarnModified(st, f, target_exists, target_hash, stored_hash) ==
    IF target_exists /\ stored_hash # <<>> /\ target_hash # stored_hash
    THEN DeployStep(st, st.tree, f, "Warning")
    ELSE st

\* The body of the loop over source_base_path.rglob("*")
DeployFile(st, f, sources, dry, forced) ==
    IF StrLower(PathSuffix(f)) \notin DeployValidSuffixes THEN st
    ELSE DeployDecided(WarnModified(st, f, f \in DOMAIN st.tree.files,
                                    calculate_file_hash(st.tree.files, f),
                                    StoredHash(st.tree, f)),
                       f, sources[f], calculate_file_hash(sources, f),
                       DeployDecision(calculate_file_hash(sources, f),
                                      f \in DOMAIN st.tree.files,
                                      calculate_file_hash(st.tree.files, f),
                                      StoredHash(st.tree, f), forced),
                       dry)

RECURSIVE DeployFiles(_, _, _, _, _)
DeployFiles(st, names, sources, dry, forced) ==
    IF names = <<>> THEN st
    ELSE DeployFiles(DeployFile(st, Head(names), sources, dry, forced),
                     Tail(names), sources, dry, forced)

\* The target directory and its .gitignore are created first, unless dry_run
PrepareTarget(tree, dry) ==
    IF dry THEN tree ELSE [tree EXCEPT !.dir = TRUE, !.gitignore = TRUE]

\* The files of a directory in the order rglob yields them
RECURSIVE Listing(_)
Listing(names) ==
    IF names = {} THEN <<>>
    ELSE LET first == CHOOSE f \in names : TRUE
         IN <<first>> \o Listing(names \ {first})

deploy_to_single_target(sources, tree, dry, forced) ==
    DeployFiles([tree |-> PrepareTarget(tree, dry), lines |-> <<>>],
                Listing(DOMAIN sources), sources, dry, forced)

-----------------------------------------------------------------------------
(* map-deploy's inputs *)

MaxContent == 2

a_sh == <<"a",".","s","h">>
b_yml == <<"b",".","Y","M","L">>
n_txt == <<"n",".","t","x","t">>

Contents == 1..MaxContent

\* A file that is absent (0) or has one of the contents
FilesOf(ca, cb) ==
    [f \in (IF ca = 0 THEN {} ELSE {a_sh}) \cup (IF cb = 0 THEN {} ELSE {b_yml}) |->
        IF f = a_sh THEN ca ELSE cb]

\* A hash file that is absent (0), empty (MaxContent + 1) or holds a digest
HashesOf(ha, hb) ==
    [f \in (IF ha = 0 THEN {} ELSE {a_sh}) \cup (IF hb = 0 THEN {} ELSE {b_yml}) |->
        LET h == IF f = a_sh THEN ha ELSE hb
        IN IF h > MaxContent THEN <<>> ELSE <<"sha256", h>>]

TargetTrees ==
    {NoTarget} \cup
    {[dir |-> TRUE, gitignore |-> g, files |-> FilesOf(ca, cb),
      hashes |-> HashesOf(ha, hb)] :
        g \in BOOLEAN, ca \in 0..MaxContent, cb \in 0..1,
        ha \in 0..(MaxContent + 1), hb \in 0..1}

DeployInit ==
    /\ \E ca \in Contents, cb \in 0..1 :
          source_files = FilesOf(ca, cb) @@ (n_txt :> 1)
    /\ target \in TargetTrees
    /\ dry_run \in BOOLEAN
    /\ force \in BOOLEAN
    /\ deploy_report = NotDeployed
    /\ IdleButDeploy

DeployToSingleTarget ==
    /\ ~deploy_report.done
    /\ target' = deploy_to_single_target(source_files, target, dry_run, force).tree
    /\ deploy_report' =
          [done |-> TRUE,
           lines |-> deploy_to_single_target(source_files, target, dry_run, force).lines]
    /\ UNCHANGED <<source_files, dry_run, force, notDeployVars>>

DeployNext == DeployToSingleTarget

SpecDeploy == DeployInit /\ [][DeployNext]_vars

-----------------------------------------------------------------------------
(* Claims about dry-run *)

-----------------------------------------------------------------------------
(* Claims about locally modified targets *)

\* A source file map-deploy handles
Deployable(f) ==
    f \in DOMAIN source_files /\ StrLower(PathSuffix(f)) \in DeployValidSuffixes

\* The target file exists and its hash differs from the recorded one
LocallyModified(tree, f) ==
    /\ f \in DOMAIN tree.files
    /\ StoredHash(tree, f) # <<>>
    /\ calculate_file_hash(tree.files, f) # StoredHash(tree, f)

\* C24 as stated: a locally modified target file keeps its content and its
\* hash record when force is false, and holds the source's content after the
\* deployment when force is true.
C24_ModifiedTargetGuarded ==
    [][DeployToSingleTarget =>
          \A f \in DOMAIN source_files :
             (Deployable(f) /\ LocallyModified(target, f)) =>
                IF force
                THEN calculate_file_hash(target'.files, f)
                        = calculate_file_hash(source_files, f)
                ELSE /\ calculate_file_hash(target'.files, f)
                           = calculate_file_hash(target.files, f)
                     /\ StoredHash(target', f) = StoredHash(target, f)]_vars

\* C24 amended: a locally modified target file keeps its content and its hash
\* record when force is false; when force is true and the run is not a dry
\* run it holds the source's content after the deployment.
C24_ModifiedTargetGuardedUnlessDryRun ==
    [][DeployToSingleTarget =>
          \A f \in DOMAIN source_files :
             (Deployable(f) /\ LocallyModified(target, f)) =>
                IF force
                THEN dry_run \/ calculate_file_hash(target'.files, f)
                                  = calculate_file_hash(source_files, f)
                ELSE /\ calculate_file_hash(target'.files, f)
                           = calculate_file_hash(target.files, f)
                     /\ StoredHash(target', f) = StoredHash(target, f)]_vars

\* C24 witness: a forced deployment that was not a dry run warned about a
\* locally modified file and then replaced it with the source's content
C24_Witness ==
    /\ deploy_report.done
    /\ force
    /\ ~dry_run
    /\ \E i \in DOMAIN deploy_report.lines :
          /\ deploy_report.lines[i].action = "Warning"
          /\ i + 1 \in DOMAIN deploy_report.lines
          /\ deploy_report.lines[i + 1].action = "Updating"
          /\ target.files[deploy_report.lines[i].file]
                = source_files[deploy_report.lines[i].file]

-----------------------------------------------------------------------------
(* Claims about the state a deployment leaves behind *)

\* The report has a "Skipping copy" line for the file
SkippedAsModified(lines, f) ==
    \E i \in DOMAIN lines : lines[i].file = f /\ lines[i].action = "SkipModified"

\* C28: after a deployment that was not a dry run, every target file that has
\* a source file and was not skipped as locally modified has the source's
\* content and a hash record equal to the hash of that content; after a forced
\* deployment a following deployment without force skips no file as locally
\* modified.
C28_DeployedMatchesSource ==
    (deploy_report.done /\ ~dry_run) =>
        /\ \A f \in DOMAIN source_files :
              (Deployable(f) /\ ~SkippedAsModified(deploy_report.lines, f)) =>
                 /\ calculate_file_hash(target.files, f)
                       = calculate_file_hash(source_files, f)
                 /\ StoredHash(target, f) = calculate_file_hash(target.files, f)
        /\ force =>
              \A f \in DOMAIN source_files :
                 ~SkippedAsModified(
                     deploy_to_single_target(source_files, target, FALSE, FALSE).lines, f)

\* C29: without force, an existing target file that differs from the source
\* is replaced only when its content matches its recorded hash; a differing
\* target file without a hash record is left unchanged.
C29_UnforcedReplacesOnlyRecorded ==
    [][(DeployToSingleTarget /\ ~force) =>
          \A f \in DOMAIN source_files :
             (/\ Deployable(f)
              /\ f \in DOMAIN target.files
              /\ target.files[f] # source_files[f]
              /\ StoredHash(target, f) # calculate_file_hash(target.files, f)) =>
                calculate_file_hash(target'.files, f)
                   = calculate_file_hash(target.files, f)]_vars

-----------------------------------------------------------------------------
(* The compile command: change tracking, compilation, the output writer.    *)
(* A content is a number: an input tree of version v compiles to the        *)
(* document v, and a hand-edited document is a number no version produces.  *)

MaxVersion == 3

EditedContent == MaxVersion + 1

\* The hash record's payload is the content itself, base64-encoded
B64Encode(content) == <<"b64", content>>
B64Decode(payload) == payload[2]

\* A change detector that reports a change every time
needs_compilation_always(inp) == TRUE

\* The directory needs compilation when the baseline is absent or differs
needs_compilation(inp) == inp.baseline = 0 \/ inp.baseline # inp.version

WriteResult(out, kind, wrote) == [output |-> out, kind |-> kind, wrote |-> wrote]

\* A writer that validates the document after it has written the file
write_then_validate(out, new_content, valid) ==
    IF valid
    THEN WriteResult([content |-> new_content, hash |-> B64Encode(new_content)],
                     "ok", TRUE)
    ELSE WriteResult([out EXCEPT !.content = new_content],
                     "ValidationFailed", FALSE)

\* write_yaml_and_hash: a document the validator rejects raises
\* ValidationFailed before anything is written; else the file is written,
\* then its hash record
write_yaml_and_hash(out, new_content, valid) ==
    IF valid
    THEN WriteResult([content |-> new_content, hash |-> B64Encode(new_content)],
                     "ok", TRUE)
    ELSE WriteResult(out, "ValidationFailed", FALSE)

\* The writer without the comparison of the file with its hash record
write_compiled_file_unchecked(out, new_content, dry, valid) ==
    IF dry THEN WriteResult(out, "ok", out.content = 0 \/ out.content # new_content)
    ELSE IF out.content # new_content
         THEN write_yaml_and_hash(out, new_content, valid)
    ELSE WriteResult(out, "ok", FALSE)

\* write_compiled_file: a dry run only reports whether it would write; a real
\* run creates a missing file, refuses a file that differs from its hash
\* record, rewrites a file that differs from the new content, else skips
write_compiled_file(out, new_content, dry, valid) ==
    IF dry THEN WriteResult(out, "ok", out.content = 0 \/ out.content # new_content)
    ELSE IF out.content = 0
         THEN write_yaml_and_hash(out, new_content, valid)
    ELSE IF B64Decode(out.hash) # out.content
         THEN WriteResult(out, "CompileError", FALSE)
    ELSE IF out.content # new_content
         THEN write_yaml_and_hash(out, new_content, valid)
    ELSE WriteResult(out, "ok", FALSE)

\* mark_compilation_complete, skipped by a dry run and by a failed compile
MarkedInputs(inp, written, dry) ==
    IF dry \/ written.kind # "ok" THEN inp ELSE [inp EXCEPT !.baseline = inp.version]

CompileOutcome(inp, written, dry, forced, inlined) ==
    [inputs |-> MarkedInputs(inp, written, dry),
     output |-> written.output,
     result |-> [kind |-> written.kind, dry_run |-> dry, force |-> forced,
                 inlined |-> IF written.kind = "ok" THEN inlined ELSE 0,
                 wrote |-> written.wrote]]

\* run_compile_all: without force an unchanged input tree is skipped; else
\* the document is compiled (one script inlined) and handed to the writer.
\* `valid` is the verdict of the validator on the compiled document.
run_compile_all(inp, out, dry, forced, valid) ==
    IF ~forced /\ ~needs_compilation(inp)
    THEN [inputs |-> inp, output |-> out,
          result |-> [kind |-> "ok", dry_run |-> dry, force |-> forced,
                      inlined |-> 0, wrote |-> FALSE]]
    ELSE CompileOutcome(inp, write_compiled_file(out, inp.version, dry, valid),
                        dry, forced, 1)

CompileInit ==
    /\ inputs = [version |-> 1, baseline |-> 0]
    /\ output = NoOutput
    /\ compile_result = NoCompile
    /\ IdleButCompile

\* The user changes the input tree
EditInputs(v) ==
    /\ v # inputs.version
    /\ inputs' = [inputs EXCEPT !.version = v]
    /\ UNCHANGED <<output, compile_result, notCompileVars>>

\* The user edits the compiled output by hand
EditOutput ==
    /\ output.content \notin {0, EditedContent}
    /\ output' = [output EXCEPT !.content = EditedContent]
    /\ UNCHANGED <<inputs, compile_result, notCompileVars>>

RunCompileAll(dry, forced, valid) ==
    /\ inputs' = run_compile_all(inputs, output, dry, forced, valid).inputs
    /\ output' = run_compile_all(inputs, output, dry, forced, valid).output
    /\ compile_result' = run_compile_all(inputs, output, dry, forced, valid).result
    /\ UNCHANGED notCompileVars

CompileNext ==
    \/ \E v \in 1..MaxVersion : EditInputs(v)
    \/ EditOutput
    \/ \E dry \in BOOLEAN, forced \in BOOLEAN, valid \in BOOLEAN :
          RunCompileAll(dry, forced, valid)

SpecCompile == CompileInit /\ [][CompileNext]_vars

-----------------------------------------------------------------------------
(* Claims about hand-edited outputs and about compiling twice *)

\* The output file differs from the content its hash record holds
HandEdited ==
    output.content # 0 /\ B64Decode(output.hash) # output.content

\* C8 as stated: a compile (a real run) of a tree whose output was edited by
\* hand leaves the file as edited and fails with a compile error, with or
\* without force.
C8_HandEditedAlwaysFails ==
    [][\A forced \in BOOLEAN, valid \in BOOLEAN :
          (RunCompileAll(FALSE, forced, valid) /\ HandEdited) =>
              (output' = output /\ compile_result'.kind = "CompileError")]_vars

\* C8 amended: no compile, forced or not, dry run or not, changes an output
\* that was edited by hand or its hash record; a real run fails with a
\* compile error exactly when it gets to the write, that is when force is
\* set or the inputs changed since the last compile.
C8_HandEditedNeverOverwritten ==
    [][\A dry \in BOOLEAN, forced \in BOOLEAN, valid \in BOOLEAN :
          (RunCompileAll(dry, forced, valid) /\ HandEdited) =>
              /\ output' = output
              /\ ~dry => (compile_result'.kind = "CompileError"
                            <=> (forced \/ needs_compilation(inputs)))]_vars

\* C8 witness: a forced compile of a hand-edited output failed and the file
\* still has the edited content
C8_Witness ==
    /\ compile_result.kind = "CompileError"
    /\ compile_result.force
    /\ output.content = EditedContent
    /\ HandEdited

\* The inputs are as the last compile saw them and the output is as it wrote it
CompiledAndUntouched ==
    /\ inputs.baseline = inputs.version
    /\ output.content # 0
    /\ ~HandEdited

C17_RecordFollowsSuccessfulWrite ==
    [][/\ output'.hash # output.hash =>
              \E forced \in BOOLEAN :
                  /\ RunCompileAll(FALSE, forced, TRUE)
                  /\ compile_result'.kind = "ok"
                  /\ compile_result'.wrote
                  /\ output'.content = inputs.version
       /\ \A dry \in BOOLEAN, forced \in BOOLEAN, valid \in BOOLEAN :
              RunCompileAll(dry, forced, valid) =>
                  /\ compile_result'.kind # "ok" => output' = output
                  /\ output' # output =>
                         /\ compile_result'.kind = "ok"
                         /\ output'.hash = B64Encode(output'.content)]_vars

\* C17 witness: after a compile wrote the output and its record, a compile
\* of changed inputs failed validation, and the record still encodes the
\* content of the earlier write
C17_Witness ==
    /\ compile_result.kind = "ValidationFailed"
    /\ output.content \notin {0, inputs.version}
    /\ output.hash = B64Encode(output.content)

-----------------------------------------------------------------------------
(* The containment boundary.  The inliner and the graph builder walk the    *)
(* same reference lines: the lines of the document's script field, then the *)
(* source lines of every script they reach.  A reference line is the path   *)
(* it names, as segments relative to the directory of the file holding the  *)
(* line, and whether the line carries the allow-outside-root pragma.  A     *)
(* line from which the reference parser extracts no path has no segments.   *)

root == <<"r">>
ci_yml == <<"r", "ci.yml">>

Parent(path) == SubSeq(path, 1, Len(path) - 1)

\* The path a reference line of the file `holder` names, ".." resolved
Target(holder, line) == ResolveParts(Parent(holder) \o line.path, <<>>)

\* A check that lets every path through
within_any_root(resolved, allow, skip) == TRUE

\* The resolved path must stay within the root, unless the line carries the
\* pragma or root checks are switched off for the whole process
secure_join(resolved, allow, skip) ==
    skip \/ allow \/ IsRelativeTo(resolved, root)

\* The lines of a file from which the reference parser extracts a path
References(lines) == {i \in 1..Len(lines) : lines[i].path # <<>>}

\* A walk that takes every line for a reference, parsed or not
PassingUnparsed(holder, lines, skip) ==
    {i \in 1..Len(lines) :
        secure_join(Target(holder, lines[i]), lines[i].allow, skip)}

\* The lines of a file whose reference passes the check
Passing(holder, lines, skip) ==
    {i \in References(lines) :
        secure_join(Target(holder, lines[i]), lines[i].allow, skip)}

EdgesOf(holder, lines, idx) ==
    {<<holder, Target(holder, lines[i])>> : i \in idx}

Targets(edges) == {e[2] : e \in edges}

\* The walk: a work-list of files still to read and the set of files read.
\* A refused line adds no edge and its target is not read; a target missing
\* on disk keeps its edge and is not read.
RECURSIVE trace(_, _, _, _, _, _)
RECURSIVE TraceFile(_, _, _, _, _, _, _)

TraceLines(holder, passing, todo, processed, edges, refused, files, skip) ==
    trace((todo \cup Targets(EdgesOf(holder, files[holder], passing)))
              \ (processed \cup {holder}),
          processed \cup {holder},
          edges \cup EdgesOf(holder, files[holder], passing),
          refused \cup EdgesOf(holder, files[holder],
                               References(files[holder]) \ passing),
          files, skip)

TraceFile(holder, todo, processed, edges, refused, files, skip) ==
    IF holder \notin DOMAIN files
    THEN trace(todo \ {holder}, processed \cup {holder}, edges, refused,
               files, skip)
    ELSE TraceLines(holder, Passing(holder, files[holder], skip),
                    todo, processed, edges, refused, files, skip)

trace(todo, processed, edges, refused, files, skip) ==
    IF todo = {} THEN [edges |-> edges, refused |-> refused]
    ELSE TraceFile(CHOOSE f \in todo : TRUE,
                   todo, processed, edges, refused, files, skip)

\* The document and the scripts as one tree of files
WithDocument(lines, files) == (ci_yml :> lines) @@ files

\* The lines as the graph builder reads them: it looks for the reference
\* only and knows no pragma
WithoutPragmas(files) ==
    [f \in DOMAIN files |->
        [i \in DOMAIN files[f] |-> [files[f][i] EXCEPT !.allow = FALSE]]]

\* The graph builder refuses every reference to a path outside the root,
\* logs it, and goes on
generate_dependency_graph(lines, files) ==
    [status |-> "ok"]
        @@ trace({ci_yml}, {}, {}, {},
                 WithoutPragmas(WithDocument(lines, files)), FALSE)

\* The inliner fails the document on a refused reference and on a missing
\* script, and then substitutes nothing
InlineOutcome(walk, files) ==
    IF walk.refused # {}
    THEN [status |-> "SourceSecurityError", edges |-> {},
          refused |-> walk.refused]
    ELSE IF Targets(walk.edges) \subseteq DOMAIN files
         THEN [status |-> "ok", edges |-> walk.edges, refused |-> {}]
    ELSE [status |-> "NotFound", edges |-> {}, refused |-> {}]

inline_document(lines, files, skip) ==
    InlineOutcome(trace({ci_yml}, {}, {}, {}, WithDocument(lines, files), skip),
                  files)

-----------------------------------------------------------------------------
(* The walk's inputs: a document of up to MaxRefs reference lines over a    *)
(* tree in which a.sh sources b.sh and a script above the root, b.sh        *)
(* sources lib/c.sh and n.sh, which is not on disk, and lib/c.sh sources    *)
(* a.sh again.                                                              *)

MaxRefs == 2

script_a == <<"r", "a.sh">>
script_b == <<"r", "b.sh">>
script_c == <<"r", "lib", "c.sh">>
outside_sh == <<"o.sh">>

RefLine(path, allow) == [path |-> path, allow |-> allow]

\* m.sh and q.sh are not on disk
RefPaths ==
    {<<"a.sh">>, <<"m.sh">>, <<"..", "o.sh">>, <<"lib", "..", "..", "o.sh">>,
     <<"..", "q.sh">>}

\* A line the reference parser rejects ("./a.sh --flag", "echo hello")
RejectedLine == RefLine(<<>>, FALSE)

RefLines ==
    {RefLine(path, allow) : path \in RefPaths, allow \in BOOLEAN}
        \cup {RejectedLine}

\* allow: a.sh's line to the outside script carries the pragma;
\* nested: the source lines of the outside script
ScriptTree(allow, nested) ==
    (script_a :> <<RefLine(<<"b.sh">>, FALSE),
                   RefLine(<<"..", "o.sh">>, allow)>>)
    @@ (script_b :> <<RefLine(<<"lib", "c.sh">>, FALSE),
                      RefLine(<<"n.sh">>, FALSE)>>)
    @@ (script_c :> <<RefLine(<<"..", "a.sh">>, FALSE)>>)
    @@ (outside_sh :> nested)

ScriptTrees ==
    {ScriptTree(allow, nested) :
        allow \in BOOLEAN,
        nested \in {<<>>, <<RefLine(<<"p.sh">>, FALSE)>>}}

TraceInit ==
    /\ ref_lines = <<>>
    /\ scripts \in ScriptTrees
    /\ skip_root_checks \in BOOLEAN
    /\ inline_trace = NotTraced
    /\ graph = NotTraced
    /\ IdleButTrace

\* One more reference line is written into the document's script field
AppendRef ==
    /\ Len(ref_lines) < MaxRefs
    /\ inline_trace = NotTraced
    /\ graph = NotTraced
    /\ \E line \in RefLines : ref_lines' = Append(ref_lines, line)
    /\ UNCHANGED <<scripts, skip_root_checks, inline_trace, graph, notTraceVars>>

\* The compile command inlines the document
InlineDocument ==
    /\ inline_trace = NotTraced
    /\ inline_trace' = inline_document(ref_lines, scripts, skip_root_checks)
    /\ UNCHANGED <<ref_lines, scripts, skip_root_checks, graph, notTraceVars>>

\* The graph command walks the document
BuildGraph ==
    /\ graph = NotTraced
    /\ graph' = generate_dependency_graph(ref_lines, scripts)
    /\ UNCHANGED <<ref_lines, scripts, skip_root_checks, inline_trace,
                   notTraceVars>>

TraceNext == AppendRef \/ InlineDocument \/ BuildGraph

SpecTrace == TraceInit /\ [][TraceNext]_vars

-----------------------------------------------------------------------------
(* Claims about the containment boundary *)

\* The line of the edge's holder that names the edge's target carries the
\* pragma
PragmaOnLine(e, files) ==
    /\ e[1] \in DOMAIN files
    /\ \E i \in 1..Len(files[e[1]]) :
          /\ Target(e[1], files[e[1]][i]) = e[2]
          /\ files[e[1]][i].allow

\* The edges to a path outside the root that no pragma on the naming line
\* covers
Unlicensed(edges) ==
    {e \in edges : /\ ~IsRelativeTo(e[2], root)
                   /\ ~PragmaOnLine(e, WithDocument(ref_lines, scripts))}

\* Every file whose lines gave an edge is the document or was itself reached
Followed(edges) ==
    \A e \in edges : e[1] = ci_yml \/ e[1] \in Targets(edges)

-----------------------------------------------------------------------------
(* Claims about the edge set of the dependency graph *)

\* The files the edges lead to from the document, in at most n steps
OneStepFrom(edges, from) ==
    from \cup {e[2] : e \in {d \in edges : d[1] \in from}}

RECURSIVE ReachedIn(_, _)
ReachedIn(edges, n) ==
    IF n = 0 THEN {ci_yml} ELSE OneStepFrom(edges, ReachedIn(edges, n - 1))

Reached(edges) == ReachedIn(edges, Cardinality(edges))

\* The reference lines of the file: the lines the parser accepts
AcceptedLines(holder) ==
    LET files == WithDocument(ref_lines, scripts)
    IN IF holder \in DOMAIN files
       THEN {files[holder][i] : i \in References(files[holder])}
       ELSE {}

\* Every edge starts at the document or at a script on disk that the edges
\* reach from the document, and is named by a line of that file which the
\* parser accepts
EdgesAreReferences(edges) ==
    \A e \in edges :
        /\ e[1] \in Reached(edges)
        /\ \E line \in AcceptedLines(e[1]) : Target(e[1], line) = e[2]

\* Every accepted line of the document and of every reached script that
\* names a path within the root has its edge, whether or not the path is
\* on disk
InRootReferencesAreEdges(edges) ==
    \A holder \in Reached(edges) :
        \A line \in AcceptedLines(holder) :
            IsRelativeTo(Target(holder, line), root)
                => <<holder, Target(holder, line)>> \in edges

\* C23: the edges are exactly the accepted references to paths within the
\* root, found from the document on: an accepted line naming a path within
\* the root gives an edge even when the script is missing, a rejected line
\* gives none, and a line naming a path outside the root gives a refusal
\* and no edge.
C23_EdgesAreInRootReferences ==
    graph.status = "ok" =>
        /\ EdgesAreReferences(graph.edges)
        /\ InRootReferencesAreEdges(graph.edges)
        /\ \A e \in graph.edges : IsRelativeTo(e[2], root)
        /\ \A e \in graph.refused :
              ~IsRelativeTo(e[2], root) /\ e \notin graph.edges

\* C23 witness: the document names a.sh and has a line the parser rejects;
\* the graph has the edges to a.sh, from a.sh to b.sh and from b.sh to the
\* missing n.sh, and a refusal of a.sh's line above the root
C23_Witness ==
    /\ graph.status = "ok"
    /\ \E i \in DOMAIN ref_lines : ref_lines[i] = RejectedLine
    /\ {<<ci_yml, script_a>>, <<script_a, script_b>>,
        <<script_b, <<"r", "n.sh">>>>} \subseteq graph.edges
    /\ <<"r", "n.sh">> \notin DOMAIN scripts
    /\ <<script_a, outside_sh>> \in graph.refused

-----------------------------------------------------------------------------
(* Hash records of one output file and drift detection.  A file's content   *)
(* is its sequence of lines; a record holds the base64 of the content it    *)
(* was written for, or bytes that do not decode.                            *)

\* A record whose payload is not base64
Corrupt == <<"not base64!">>

\* base64 of a text, as the record file holds it; the base64 of the empty
\* text is empty
EncodeText(text) == IF text = <<>> THEN <<>> ELSE <<"b64", text>>

\* _decode_hash_content: the decoded text, or None for a record that is
\* empty or not base64
decode_hash_content(record) ==
    IF Len(record) = 2 /\ record[1] = "b64"
    THEN [ok |-> TRUE, text |-> record[2]]
    ELSE [ok |-> FALSE, text |-> <<>>]

\* find_hash_file: the centralized record first, then the sibling record
find_hash_file(central, legacy) ==
    IF central # NoFile THEN central
    ELSE IF legacy # NoFile THEN legacy
    ELSE NoFile

\* What the filesystem does with the unlink or the move of the sibling
\* record: it succeeds, it raises and nothing happened, or (a move across
\* devices) it raises after the copy was made and before the source was removed
FsOutcomes == {"ok", "raised", "copied"}

\* A migration that moves the record back next to the output
migrate_to_legacy(central, legacy, fs) ==
    IF central = NoFile THEN [central |-> central, legacy |-> legacy,
                              migrated |-> FALSE]
    ELSE [central |-> NoFile, legacy |-> central, migrated |-> TRUE]

\* migrate_hash_file: the sibling record is moved to the centralized place,
\* or deleted when a centralized record exists already.  An exception of
\* the unlink, the mkdir or the move is logged and False is returned.
migrate_hash_file(central, legacy, fs) ==
    IF legacy = NoFile
    THEN [central |-> central, legacy |-> legacy, migrated |-> FALSE]
    ELSE IF central # NoFile
         THEN [central |-> central,
               legacy |-> IF fs = "ok" THEN NoFile ELSE legacy,
               migrated |-> FALSE]
    ELSE IF fs = "ok"
         THEN [central |-> legacy, legacy |-> NoFile, migrated |-> TRUE]
    ELSE [central |-> IF fs = "copied" THEN legacy ELSE central,
          legacy |-> legacy, migrated |-> FALSE]

\* The matching blocks of difflib: a[i .. i+k-1] = b[j .. j+k-1]
Blocks(a, b) ==
    {m \in [i : 1..Len(a), j : 1..Len(b), k : 1..Len(a)] :
        /\ m.i + m.k - 1 <= Len(a)
        /\ m.j + m.k - 1 <= Len(b)
        /\ SubSeq(a, m.i, m.i + m.k - 1) = SubSeq(b, m.j, m.j + m.k - 1)}

\* find_longest_match: the longest block, the earliest in a, then in b
Precedes(m, n) ==
    \/ m.k > n.k
    \/ m.k = n.k /\ m.i < n.i
    \/ m.k = n.k /\ m.i = n.i /\ m.j <= n.j

find_longest_match(a, b) ==
    CHOOSE m \in Blocks(a, b) : \A n \in Blocks(a, b) : Precedes(m, n)

JoinDiff(left, right) ==
    [removed |-> left.removed \o right.removed,
     added |-> left.added \o right.added]

\* The lines a unified diff of a against b marks "-" and "+": what lies
\* outside the matching blocks, found left and right of the longest one
RECURSIVE generate_pretty_diff(_, _)

DiffAround(a, b, m) ==
    JoinDiff(generate_pretty_diff(SubSeq(a, 1, m.i - 1), SubSeq(b, 1, m.j - 1)),
             generate_pretty_diff(SubSeq(a, m.i + m.k, Len(a)),
                                  SubSeq(b, m.j + m.k, Len(b))))

generate_pretty_diff(a, b) ==
    IF Blocks(a, b) = {} THEN [removed |-> a, added |-> b]
    ELSE DiffAround(a, b, find_longest_match(a, b))

DriftReport(kind, result, diff) ==
    [kind |-> kind, result |-> result, removed |-> diff.removed,
     added |-> diff.added]

NoDiff == [removed |-> <<>>, added |-> <<>>]

\* A drift report whose diff takes the two files the wrong way round
DriftFoundReversed(baseline, content) ==
    DriftReport("drift", 1, generate_pretty_diff(content, baseline))

\* The output differs from its baseline: the diff is printed
DriftFound(baseline, content) ==
    DriftReport("drift", 1, generate_pretty_diff(baseline, content))

CompareDecoded(decoded, content) ==
    IF ~decoded.ok THEN DriftReport("error", 1, NoDiff)
    ELSE IF decoded.text = content THEN DriftReport("ok", 0, NoDiff)
    ELSE DriftFound(decoded.text, content)

\* The check of one record against its output file
CheckRecord(record, content) ==
    IF record = NoFile THEN DriftReport("no_hash_files", 0, NoDiff)
    ELSE IF content = NoFile THEN DriftReport("error", 1, NoDiff)
    ELSE CompareDecoded(decode_hash_content(record), content)

\* run_detect_drift walks the records found in the output tree
run_detect_drift(content, central, legacy) ==
    CheckRecord(find_hash_file(central, legacy), content)

\* drift_handler: the result of run_detect_drift is dropped
drift_handler(report) == 0

-----------------------------------------------------------------------------
(* The output tree's states: an output of up to MaxDiffLines lines, edited, *)
(* deleted, and its records written by a compile or damaged.                *)

MaxDiffLines == 2

RECURSIVE TextsOfLen(_)
TextsOfLen(n) ==
    IF n = 0 THEN {<<>>}
    ELSE {Append(t, l) : t \in TextsOfLen(n - 1), l \in {"x", "y"}}

Texts == UNION {TextsOfLen(n) : n \in 0..MaxDiffLines}

Records == {EncodeText(t) : t \in Texts} \cup {Corrupt}

DriftInit ==
    /\ out_content \in Texts \cup {NoFile}
    /\ central_hash = NoFile
    /\ legacy_hash = NoFile
    /\ migrated = NotMigrated
    /\ drift_report = NoDriftReport
    /\ drift_exit = 0
    /\ IdleButDrift

\* The tree is as it was left before the commands run
Untouched == migrated = NotMigrated /\ drift_report = NoDriftReport

\* The output file is edited by hand or deleted
WriteOutput ==
    /\ Untouched
    /\ \E t \in Texts \cup {NoFile} : t # out_content /\ out_content' = t
    /\ UNCHANGED <<central_hash, legacy_hash, migrated, drift_report,
                   drift_exit, notDriftVars>>

\* A record file appears, is rewritten or is damaged, in either place
WriteRecord ==
    /\ Untouched
    /\ \E r \in Records, place \in {"central", "legacy"} :
          /\ central_hash' = IF place = "central" THEN r ELSE central_hash
          /\ legacy_hash' = IF place = "legacy" THEN r ELSE legacy_hash
    /\ UNCHANGED <<out_content, migrated, drift_report, drift_exit,
                   notDriftVars>>

MigrateHashFile(fs) ==
    /\ central_hash' = migrate_hash_file(central_hash, legacy_hash, fs).central
    /\ legacy_hash' = migrate_hash_file(central_hash, legacy_hash, fs).legacy
    /\ migrated' =
          [ran |-> TRUE,
           returned |-> migrate_hash_file(central_hash, legacy_hash, fs).migrated]
    /\ UNCHANGED <<out_content, drift_report, drift_exit, notDriftVars>>

\* The detect-drift command
RunDetectDrift ==
    /\ drift_report' = run_detect_drift(out_content, central_hash, legacy_hash)
    /\ drift_exit' = drift_handler(drift_report')
    /\ UNCHANGED <<out_content, central_hash, legacy_hash, migrated,
                   notDriftVars>>

DriftNext ==
    \/ WriteOutput
    \/ WriteRecord
    \/ \E fs \in FsOutcomes : MigrateHashFile(fs)
    \/ RunDetectDrift

SpecDrift == DriftInit /\ [][DriftNext]_vars

-----------------------------------------------------------------------------
(* Claims about drift detection and the hash records *)

\* The record drift detection reads for the output
Baseline == find_hash_file(central_hash, legacy_hash)

\* The report says drift, every "-" line is a line of x and every "+" line
\* is a line of y
DiffBetween(report, x, y) ==
    /\ report.kind = "drift"
    /\ report.result = 1
    /\ Range(report.removed) \subseteq Range(x)
    /\ Range(report.added) \subseteq Range(y)

\* C11 as stated: with the baseline base64(X) stored, an output whose
\* content is X is reported as free of drift, and an output whose content
\* is another Y is reported as drift with a removed line of X and an added
\* line of Y.
C11_DriftRoundTrip ==
    [][\A x \in Texts :
          (RunDetectDrift /\ Baseline = EncodeText(x) /\ out_content # NoFile) =>
              IF out_content = x
              THEN drift_report'.kind = "ok" /\ drift_report'.result = 0
              ELSE /\ DiffBetween(drift_report', x, out_content)
                   /\ drift_report'.removed # <<>>
                   /\ drift_report'.added # <<>>]_vars

\* C11 amended: the same for a baseline base64(X) of a non-empty X, where
\* the diff of an output that differs has a removed line of X or an added
\* line of Y, and not always both; the base64 of an empty X is an empty
\* record, which does not decode and is reported as an error.
C11_DriftRoundTripNonEmpty ==
    [][\A x \in Texts :
          (RunDetectDrift /\ Baseline = EncodeText(x) /\ out_content # NoFile) =>
              IF x = <<>>
              THEN drift_report'.kind = "error" /\ drift_report'.result = 1
              ELSE IF out_content = x
              THEN drift_report'.kind = "ok" /\ drift_report'.result = 0
              ELSE /\ DiffBetween(drift_report', x, out_content)
                   /\ drift_report'.removed # <<>> \/ drift_report'.added # <<>>]_vars

\* C11 witness: drift was reported for an output that only gained a line,
\* and the diff has no removed line
C11_Witness ==
    /\ drift_report.kind = "drift"
    /\ drift_report.removed = <<>>
    /\ drift_report.added # <<>>
    /\ out_content # NoFile
    /\ Baseline = EncodeText(SubSeq(out_content, 1, Len(out_content) - 1))

\* The state of the output is unknown: it has no record, or a record that
\* does not decode, or the record is there and the output is not
StateUnknown ==
    \/ out_content # NoFile /\ Baseline = NoFile
    \/ out_content # NoFile /\ ~decode_hash_content(Baseline).ok
    \/ out_content = NoFile /\ Baseline # NoFile

\* C12: drift detection over an output whose record is absent or does not
\* decode, or over a record whose output is missing, reports drift or an
\* error and never passes the file over.
C12_UnknownStateMustAct ==
    [][(RunDetectDrift /\ StateUnknown) =>
          /\ drift_report'.kind \in {"drift", "error"}
          /\ drift_report'.result # 0]_vars

\* C14: the detect-drift command exits with a non-zero status when drift,
\* a missing output or an undecodable record was found, and with zero when
\* none was found.
C14_DriftExitStatus ==
    [][RunDetectDrift =>
          (drift_exit' # 0 <=> drift_report'.kind \in {"drift", "error"})]_vars

\* C20 as stated: after migrate_hash_file the sibling record no longer
\* exists; a centralized record that existed is unchanged, else the
\* centralized record now holds the former sibling content.
C20_MigrationOneWay ==
    [][\A fs \in FsOutcomes :
          MigrateHashFile(fs) =>
              /\ legacy_hash' = NoFile
              /\ central_hash # NoFile => central_hash' = central_hash
              /\ central_hash = NoFile => central_hash' = legacy_hash]_vars

\* C20 amended: migrate_hash_file never changes a centralized record that
\* exists, never creates or changes a sibling record, and the record that
\* find_hash_file yields is the same before and after (no record is lost,
\* none is moved back).  When the unlink or the move succeeds, the sibling
\* record is gone afterwards and a centralized record that was missing
\* holds the former sibling content; when it raises, the sibling record is
\* still there and False is returned.
C20_MigrationOneWayUnlessFailed ==
    [][\A fs \in FsOutcomes :
          MigrateHashFile(fs) =>
              /\ central_hash # NoFile => central_hash' = central_hash
              /\ central_hash' \in {central_hash, legacy_hash}
              /\ legacy_hash' \in {NoFile, legacy_hash}
              /\ find_hash_file(central_hash', legacy_hash')
                    = find_hash_file(central_hash, legacy_hash)
              /\ fs = "ok" =>
                    /\ legacy_hash' = NoFile
                    /\ central_hash = NoFile => central_hash' = legacy_hash
              /\ fs # "ok" =>
                    /\ legacy_hash' = legacy_hash
                    /\ ~migrated'.returned
              /\ migrated'.returned <=>
                    (fs = "ok" /\ central_hash = NoFile
                        /\ legacy_hash # NoFile)]_vars

\* C20 witness: a migration moved the sibling record to the centralized
\* place
C20_Witness ==
    /\ migrated.ran
    /\ migrated.returned
    /\ central_hash # NoFile
    /\ legacy_hash = NoFile

-----------------------------------------------------------------------------
(***************************************************************************)
(* The worker pool of the compile command.  Each document of the input     *)
(* directory is compiled by one worker; a worker that succeeds writes the   *)
(* hash record of its output at get_output_hash_path.  When the pool has    *)
(* drained, the command stores the inputs' baseline (mark compiled) or      *)
(* fails.                                                                   *)
(***************************************************************************)

\* HASH_DIR_NAME and OUTPUT_HASH_SUBDIR
HASH_DIR_NAME == <<".","b","a","s","h","2","g","i","t","l","a","b">>
OUTPUT_HASH_SUBDIR == <<"o","u","t","p","u","t","_","h","a","s","h","e","s">>

\* PurePath.relative_to(base): the parts below the base
RelativeTo(path, base) ==
    LET parts == PathParts(path)
    IN JoinWith(SubSeq(parts, Len(PathParts(base)) + 1, Len(parts)), "/")

\* PurePath.with_suffix(suffix): the name's suffix is replaced
WithSuffix(path, suffix) ==
    LET parts == PathParts(path)
        name == PathName(path)
        stem == SubSeq(name, 1, Len(name) - Len(PathSuffix(path)))
    IN PathRoot(path)
       \o JoinWith(SubSeq(parts, 1, Len(parts) - 1) \o <<stem \o suffix>>, "/")

\* The path of the record relative to the hash directory
HashRelPath(out_file, base) ==
    IF /\ PathRoot(out_file) = PathRoot(base)
       /\ IsRelativeTo(PathParts(out_file), PathParts(base))
    THEN RelativeTo(out_file, base)
    ELSE PathStr(ReplaceChar(LStripChars(PathStr(out_file), {"/", "\\"}),
                             ":", "_"))

get_output_hash_path(out_file, base) ==
    LET rel_path == HashRelPath(out_file, base)
        hash_dir == PathStr(base) \o <<"/">> \o HASH_DIR_NAME
                    \o <<"/">> \o OUTPUT_HASH_SUBDIR
    IN hash_dir \o <<"/">>
       \o WithSuffix(rel_path, PathSuffix(rel_path) \o <<".","h","a","s","h">>)

\* No worker is still compiling, whatever became of the documents
no_worker_running(js) == \A d \in DOMAIN js : js[d] # "running"

\* Every worker has returned and none of them failed
all_workers_finished(js) == \A d \in DOMAIN js : js[d] = "done"

\* The worker's record is written at the record path of its output
WriteRecordAt(recs, path, d) ==
    IF path \in DOMAIN recs
    THEN [recs EXCEPT ![path] = @ \cup {d}]
    ELSE recs @@ (path :> {d})

-----------------------------------------------------------------------------
(* Inputs: up to MaxDocs documents with distinct output files, compiled by *)
(* at most MaxWorkers workers at a time.                                   *)

MaxDocs == 3
MaxWorkers == 2

\* The output directory
output_base == <<"/","o">>

\* Output files below the output directory and one beside it
out_a == <<"/","o","/","a",".","y">>
out_b == <<"/","o","/","b">>
out_x_a == <<"/","o","/","x","/","a",".","y">>
beside_x_a == <<"/","x","/","a",".","y">>

OutputFiles == {out_a, out_b, out_x_a, beside_x_a}

\* Lists of distinct output files
OutputLists ==
    {l \in UNION {[1..n -> OutputFiles] : n \in 1..MaxDocs} :
        \A i, j \in DOMAIN l : i # j => l[i] # l[j]}

Running(js) == {d \in DOMAIN js : js[d] = "running"}

PoolInit ==
    /\ IdleButPool
    /\ out_paths \in OutputLists
    /\ jobs = [d \in DOMAIN out_paths |-> "queued"]
    /\ records = EmptyMap
    /\ pool_state = "compiling"

\* The pool hands a queued document to a free worker
StartWorker ==
    \E d \in DOMAIN jobs :
        /\ pool_state = "compiling"
        /\ jobs[d] = "queued"
        /\ Cardinality(Running(jobs)) < MaxWorkers
        /\ jobs' = [jobs EXCEPT ![d] = "running"]
        /\ UNCHANGED <<out_paths, records, pool_state>>
        /\ UNCHANGED notPoolVars

\* A worker wrote its output and the output's record, and returned
FinishWorker ==
    \E d \in DOMAIN jobs :
        /\ jobs[d] = "running"
        /\ jobs' = [jobs EXCEPT ![d] = "done"]
        /\ records' = WriteRecordAt(records,
                          get_output_hash_path(out_paths[d], output_base), d)
        /\ UNCHANGED <<out_paths, pool_state>>
        /\ UNCHANGED notPoolVars

\* A worker's compilation raised: it wrote neither output nor record
FailWorker ==
    \E d \in DOMAIN jobs :
        /\ jobs[d] = "running"
        /\ jobs' = [jobs EXCEPT ![d] = "failed"]
        /\ UNCHANGED <<out_paths, records, pool_state>>
        /\ UNCHANGED notPoolVars

\* mark_compilation_complete: the inputs' hashes become the baseline
MarkCompiled ==
    /\ pool_state = "compiling"
    /\ all_workers_finished(jobs)
    /\ pool_state' = "marked"
    /\ UNCHANGED <<out_paths, jobs, records>>
    /\ UNCHANGED notPoolVars

\* A document failed and every started worker has returned: the run fails
AbortRun ==
    /\ pool_state = "compiling"
    /\ Running(jobs) = {}
    /\ \E d \in DOMAIN jobs : jobs[d] = "failed"
    /\ pool_state' = "aborted"
    /\ UNCHANGED <<out_paths, jobs, records>>
    /\ UNCHANGED notPoolVars

PoolNext ==
    \/ StartWorker
    \/ FinishWorker
    \/ FailWorker
    \/ MarkCompiled
    \/ AbortRun

SpecPool == PoolInit /\ [][PoolNext]_vars

-----------------------------------------------------------------------------
(* Claims about the worker pool and the record paths *)

C16_DistinctRecordPaths ==
    /\ \A i, j \in DOMAIN out_paths :
           i # j => get_output_hash_path(out_paths[i], output_base)
                    # get_output_hash_path(out_paths[j], output_base)
    /\ \A path \in DOMAIN records : Cardinality(records[path]) <= 1

-----------------------------------------------------------------------------
(***************************************************************************)
(* The input change detector.  Each relevant file of the input directory   *)
(* has a normalized hash; mark_compiled stores the hashes as the baseline   *)
(* and needs_compilation compares the files with it.  A script-like file    *)
(* is its text.  A configuration file is the data it parses to and the     *)
(* style it is written in (block or flow).                                  *)
(***************************************************************************)

\* normalize_text_content: all whitespace is removed
normalize_text_content(text) == SelectSeq(text, LAMBDA c : c \notin Whitespace)

\* The file is parsed as YAML
IsConfigFile(file) ==
    PathSuffix(file) \in {<<".","y","m","l">>, <<".","y","a","m","l">>}

\* compute_content_hash: the digest of the normalized content.  Two
\* configuration files of the same data in different styles hash differently.
compute_content_hash(file, content) ==
    IF IsConfigFile(file)
    THEN <<"yaml", content.data, content.flow>>
    ELSE <<"text", normalize_text_content(content.text)>>

\* A detector for which a file without a stored hash is unchanged
has_known_file_changed(file, tree, stored) ==
    file \in DOMAIN stored
        /\ stored[file] # compute_content_hash(file, tree[file])

\* has_file_changed: the file has no stored hash, or a different one
has_file_changed(file, tree, stored) ==
    file \notin DOMAIN stored
        \/ stored[file] # compute_content_hash(file, tree[file])

get_changed_files(tree, stored) ==
    {file \in DOMAIN tree : has_file_changed(file, tree, stored)}

\* InputChangeDetector.needs_compilation over the directory
detector_needs_compilation(tree, stored) ==
    \E file \in DOMAIN tree : has_file_changed(file, tree, stored)

\* mark_compiled: the hash of every file of the directory is stored
mark_compiled(tree, stored) ==
    [file \in DOMAIN tree \cup DOMAIN stored |->
        IF file \in DOMAIN tree
        THEN compute_content_hash(file, tree[file])
        ELSE stored[file]]

-----------------------------------------------------------------------------
(* Inputs: a script and a configuration file; script texts of up to        *)
(* MaxText characters, configuration data 1..MaxData in block or flow style *)

MaxText == 2
MaxData == 2

script1_sh == <<"s",".","s","h">>
script2_yml == <<"c",".","y","m","l">>

InputNames == {script1_sh, script2_yml}

RECURSIVE ScriptTextsOfLen(_)
ScriptTextsOfLen(n) ==
    IF n = 0 THEN {<<>>}
    ELSE {Append(t, c) : t \in ScriptTextsOfLen(n - 1), c \in {"a", " "}}

ScriptContents ==
    {[text |-> t, data |-> 0, flow |-> FALSE] :
        t \in UNION {ScriptTextsOfLen(n) : n \in 0..MaxText}}

ConfigContents ==
    {[text |-> <<>>, data |-> d, flow |-> f] : d \in 1..MaxData, f \in BOOLEAN}

ContentsOf(file) == IF IsConfigFile(file) THEN ConfigContents ELSE ScriptContents

\* A directory holding one file, never compiled
DetectInit ==
    /\ IdleButDetect
    /\ \E file \in InputNames, content \in ScriptContents \cup ConfigContents :
          /\ content \in ContentsOf(file)
          /\ input_files = (file :> content)
    /\ input_hashes = EmptyMap

\* The user adds a file to the directory
AddFile ==
    \E file \in InputNames \ DOMAIN input_files :
        \E content \in ContentsOf(file) :
            /\ input_files' = input_files @@ (file :> content)
            /\ UNCHANGED input_hashes
            /\ UNCHANGED notDetectVars

\* The user rewrites a file of the directory
EditFile ==
    \E file \in DOMAIN input_files :
        \E content \in ContentsOf(file) \ {input_files[file]} :
            /\ input_files' = [input_files EXCEPT ![file] = content]
            /\ UNCHANGED input_hashes
            /\ UNCHANGED notDetectVars

\* mark_compilation_complete(input_dir)
MarkCompilationComplete ==
    /\ input_hashes' = mark_compiled(input_files, input_hashes)
    /\ UNCHANGED input_files
    /\ UNCHANGED notDetectVars

DetectNext ==
    \/ AddFile
    \/ EditFile
    \/ MarkCompilationComplete

SpecDetect == DetectInit /\ [][DetectNext]_vars

-----------------------------------------------------------------------------
(* Claims about the input change detector *)

NeedsCompilation == detector_needs_compilation(input_files, input_hashes)

\* The files of the directory that are new in the step, or whose normalized
\* content the step changed
AddedOrChanged ==
    {file \in DOMAIN input_files' :
        \/ file \notin DOMAIN input_files
        \/ compute_content_hash(file, input_files'[file])
              # compute_content_hash(file, input_files[file])}

FormattingOnly(file, old, new) ==
    IF IsConfigFile(file)
    THEN old.data = new.data
    ELSE normalize_text_content(old.text) = normalize_text_content(new.text)

\* C19: a formatting-only edit (whitespace of a script, the formatting of a
\* configuration file that parses to the same data) leaves the normalized
\* hash as it was, so a directory that did not need compilation still does
\* not need it.
C19_FormattingOnlyEditKeepsHash ==
    [][(/\ DOMAIN input_files' = DOMAIN input_files
        /\ \A file \in DOMAIN input_files :
              FormattingOnly(file, input_files[file], input_files'[file]))
       => /\ \A file \in DOMAIN input_files :
                compute_content_hash(file, input_files'[file])
                    = compute_content_hash(file, input_files[file])
          /\ ~NeedsCompilation => ~NeedsCompilation']_vars

-----------------------------------------------------------------------------
(* The order of the top-level keys in the dumped document *)

MaxKeys == 4

key_order == <<"include", "variables", "stages">>

TopLevelKeys == {"include", "variables", "stages", "before_script", "build_job",
                 "test_job"}

\* The key lists of a mapping: no key twice
KeyLists ==
    UNION {{keys \in [1..n -> TopLevelKeys] :
               \A a, b \in 1..n : keys[a] = keys[b] => a = b} : n \in 0..MaxKeys}

\* data["variables"] = merged_vars: a new key goes to the end of the mapping
merge_variables_key(keys, globals) ==
    IF globals /\ "variables" \notin Range(keys) THEN Append(keys, "variables")
    ELSE keys

KeepKey(keys, key) == keys

\* data.pop(key)
PopKey(keys, key) == SelectSeq(keys, LAMBDA k : k # key)

\* The keys of key_order that are present first, then data.items()
RECURSIVE AddOrdered(_, _, _)
AddOrdered(i, data, ordered) ==
    IF i > Len(key_order) THEN ordered \o data
    ELSE IF key_order[i] \in Range(data)
    THEN AddOrdered(i + 1, PopKey(data, key_order[i]), Append(ordered, key_order[i]))
    ELSE AddOrdered(i + 1, data, ordered)

reorder_top_level_keys(keys) == AddOrdered(1, keys, <<>>)

dumped_keys(keys, globals) == reorder_top_level_keys(merge_variables_key(keys, globals))

KeysInit ==
    /\ doc_keys \in KeyLists
    /\ doc_globals \in BOOLEAN
    /\ ordered_keys = NotDumped
    /\ IdleButKeys

InlineGitlabScripts ==
    /\ ~ordered_keys.done
    /\ ordered_keys' = [done |-> TRUE, keys |-> dumped_keys(doc_keys, doc_globals)]
    /\ UNCHANGED <<doc_keys, doc_globals, notKeysVars>>

KeysNext == InlineGitlabScripts

SpecKeys == KeysInit /\ [][KeysNext]_vars

IsFixedKey(k) == k \in Range(key_order)

NotFixedKey(k) == k \notin Range(key_order)

\* The position of a fixed key in key_order
OrderOf(k) == CHOOSE i \in DOMAIN key_order : key_order[i] = k

\* The fixed keys lead, in the order of key_order
FixedKeysFirst(keys) ==
    \A i, j \in DOMAIN keys :
       (i < j /\ IsFixedKey(keys[j])) =>
          IsFixedKey(keys[i]) /\ OrderOf(keys[i]) < OrderOf(keys[j])

\* C27: in the dumped document the keys include, variables and stages that
\* are present come first, in that order; every other top-level key keeps its
\* place relative to the others; the reordering adds, drops and duplicates no
\* key of the document it reorders.
C27_FixedKeysFirstRestInOrder ==
    ordered_keys.done =>
        /\ FixedKeysFirst(ordered_keys.keys)
        /\ SelectSeq(ordered_keys.keys, NotFixedKey) = SelectSeq(doc_keys, NotFixedKey)
        /\ Range(ordered_keys.keys) = Range(merge_variables_key(doc_keys, doc_globals))
        /\ Len(ordered_keys.keys) = Len(merge_variables_key(doc_keys, doc_globals))

\* C27 witness: a document with a job ahead of stages and stages ahead of
\* include was dumped with include, stages and then the job
C27_Witness ==
    /\ ordered_keys.done
    /\ Len(doc_keys) >= 3
    /\ NotFixedKey(doc_keys[1])
    /\ doc_keys[2] = "stages"
    /\ doc_keys[3] = "include"
    /\ SubSeq(ordered_keys.keys, 1, 3) = <<"include", "stages", doc_keys[1]>>

-----------------------------------------------------------------------------
(* The reader that inlines source lines: a walk guarded by a visited set *)

MaxStack == 10

main_sh == <<"m","a","i","n",".","s","h">>
utils_sh == <<"h","e","l","p","e","r","s","/","u","t","i","l","s",".","s","h">>
data_sh == <<"n","e","s","t","e","d","/","d","a","t","a",".","s","h">>
gone_sh == <<"g","o","n","e",".","s","h">>

WalkNames == {main_sh, utils_sh, data_sh}

\* Every way the three scripts can source each other, themselves and a file
\* that does not exist
SourceTrees == [WalkNames -> SUBSET (WalkNames \cup {gone_sh})]

AlwaysNew(path, visited) == TRUE

\* The guard of the walk: a resolved path is read only the first time
NotVisited(path, visited) == path \notin visited

\* One source line resolved: a path seen before contributes nothing, a
\* missing file raises, a new path is read and its own source lines come next
WalkStep(w) ==
    IF ~NotVisited(Head(w.stack), w.visited)
    THEN [w EXCEPT !.stack = Tail(w.stack)]
    ELSE IF Head(w.stack) \notin DOMAIN w.tree
    THEN [w EXCEPT !.stack = <<>>, !.status = "raised"]
    ELSE [w EXCEPT !.stack = Listing(w.tree[Head(w.stack)]) \o Tail(w.stack),
                   !.visited = w.visited \cup {Head(w.stack)},
                   !.expanded = [w.expanded EXCEPT ![Head(w.stack)] = @ + 1]]

Finished(w) ==
    IF w.stack = <<>> /\ w.status = "walking" THEN [w EXCEPT !.status = "done"] ELSE w

inline_bash_source_step(w) == Finished(WalkStep(w))

Walk == [tree |-> walk_tree, stack |-> walk_stack, visited |-> walk_visited,
         expanded |-> walk_expanded, status |-> walk_status]

WalkInit ==
    /\ walk_tree \in SourceTrees
    /\ walk_stack = <<main_sh>>
    /\ walk_visited = {}
    /\ walk_expanded = [p \in WalkNames |-> 0]
    /\ walk_status = "walking"
    /\ IdleButWalk

InlineBashSource ==
    /\ walk_status = "walking"
    /\ walk_stack # <<>>
    /\ Len(walk_stack) <= MaxStack
    /\ walk_stack' = inline_bash_source_step(Walk).stack
    /\ walk_visited' = inline_bash_source_step(Walk).visited
    /\ walk_expanded' = inline_bash_source_step(Walk).expanded
    /\ walk_status' = inline_bash_source_step(Walk).status
    /\ UNCHANGED <<walk_tree, notWalkVars>>

WalkNext == InlineBashSource

SpecWalk == WalkInit /\ [][WalkNext]_vars

\* The reader keeps resolving source lines while there are any
SpecWalkLive == SpecWalk /\ WF_vars(InlineBashSource)

ExpandedAtMostOnce == \A p \in DOMAIN walk_expanded : walk_expanded[p] <= 1

\* C26: the resolution of source lines terminates for every script tree,
\* scripts that source each other in a cycle or source themselves included:
\* no resolved path is expanded twice, and the walk ends, done or raised.
C26_WalkTerminates ==
    /\ []ExpandedAtMostOnce
    /\ <>[](walk_stack = <<>> /\ walk_status \in {"done", "raised"})

\* C26 witness: main.sh sources itself and utils.sh, utils.sh sources main.sh
\* back, and the walk is done with each of them expanded once
C26_Witness ==
    /\ walk_status = "done"
    /\ walk_stack = <<>>
    /\ main_sh \in walk_tree[main_sh]
    /\ utils_sh \in walk_tree[main_sh]
    /\ main_sh \in walk_tree[utils_sh]
    /\ walk_expanded[main_sh] = 1
    /\ walk_expanded[utils_sh] = 1

-----------------------------------------------------------------------------
(* The task registry of the web API *)

MaxTasks == 2

TaskIds == 1..MaxTasks

TerminalStatuses == {"completed", "failed", "cancelled"}

\* create_task: the entry a new task gets
NewTask == [status |-> "started", progress |-> 0, error |-> "none",
            completed_at |-> "none"]

\* tasks[task_id].update(kwargs)
Updated(task, kwargs) ==
    [k \in DOMAIN task |-> IF k \in DOMAIN kwargs THEN kwargs[k] ELSE task[k]]

\* completed_at is stamped when the update carries a terminal status
Stamped(task, kwargs) ==
    IF "status" \in DOMAIN kwargs /\ kwargs["status"] \in TerminalStatuses
    THEN [task EXCEPT !.completed_at = "now"]
    ELSE task

update_task(registry, task_id, kwargs) ==
    IF task_id \in DOMAIN registry
    THEN [registry EXCEPT ![task_id] = Stamped(Updated(@, kwargs), kwargs)]
    ELSE registry

\* start_compile: create_task, and the operation is queued behind the response
StartCompile(t) ==
    /\ t \notin DOMAIN tasks
    /\ tasks' = (t :> NewTask) @@ tasks
    /\ operations' = (t :> "queued") @@ operations
    /\ UNCHANGED notTasksVars

\* run_compile_operation up to the await of the executor
BeginCompileOperation(t) ==
    /\ t \in DOMAIN operations
    /\ operations[t] = "queued"
    /\ tasks' = update_task(
                    update_task(tasks, t, [status |-> "running", progress |-> 10]),
                    t, [progress |-> 25])
    /\ operations' = [operations EXCEPT ![t] = "executing"]
    /\ UNCHANGED notTasksVars

\* run_compile_all_with_progress in the executor thread: nothing is compiled
\* for a task already cancelled, otherwise run_compile_all returns or raises
RunCompileAllWithProgress(t, raises) ==
    /\ t \in DOMAIN operations
    /\ operations[t] = "executing"
    /\ operations' =
          [operations EXCEPT ![t] =
              IF tasks[t].status = "cancelled" THEN "returned"
              ELSE IF raises THEN "raised" ELSE "returned"]
    /\ UNCHANGED <<tasks, notTasksVars>>

\* run_compile_operation after the await: the results are stored, or the
\* except branch records the failure
FinishCompileOperation(t) ==
    /\ t \in DOMAIN operations
    /\ operations[t] \in {"returned", "raised"}
    /\ tasks' =
          IF operations[t] = "returned"
          THEN update_task(
                  update_task(tasks, t, [progress |-> 95]),
                  t, [status |-> "completed", progress |-> 100])
          ELSE update_task(tasks, t, [status |-> "failed", error |-> "raised"])
    /\ operations' = [operations EXCEPT ![t] = "done"]
    /\ UNCHANGED notTasksVars

\* cancel_task: 404 for an unknown task, 400 for a finished one, otherwise
\* the status becomes "cancelled"
CancelTask(t) ==
    /\ tasks' =
          IF t \notin DOMAIN tasks THEN tasks
          ELSE IF tasks[t].status \in TerminalStatuses THEN tasks
          ELSE update_task(tasks, t, [status |-> "cancelled",
                                      error |-> "Cancelled by user"])
    /\ UNCHANGED <<operations, notTasksVars>>

TasksInit ==
    /\ tasks = EmptyMap
    /\ operations = EmptyMap
    /\ IdleButTasks

TasksNext ==
    \E t \in TaskIds :
       \/ StartCompile(t)
       \/ BeginCompileOperation(t)
       \/ \E raises \in BOOLEAN : RunCompileAllWithProgress(t, raises)
       \/ FinishCompileOperation(t)
       \/ CancelTask(t)

SpecTasks == TasksInit /\ [][TasksNext]_vars

\* C30: a task whose status is completed, failed or cancelled keeps that
\* status in every later step, whatever the order of cancel requests and of
\* the background operation's steps.
C30_TerminalStatusIsFinal ==
    [][\A t \in DOMAIN tasks :
          tasks[t].status \in TerminalStatuses =>
             tasks'[t].status = tasks[t].status]_vars

=============================================================================
